---- MODULE Spec2Model ----
(***************************************************************************)
(* Orchestration and readiness gating of the Figure Collector integration  *)
(* test harness: integration-test-runner.sh, run-with-prebuilt.sh,         *)
(* validate-orchestration.sh, test-against-develop.sh and the              *)
(* waitForService gate of setup.ts.                                        *)
(*                                                                         *)
(* One behaviour of the model is one invocation of one script (or one call *)
(* of waitForService).  The docker daemon, the probed services and the     *)
(* operator's signals are the environment: every external command returns  *)
(* an exit status drawn from CmdStatus, every probe observes a status      *)
(* drawn from the statuses the probed thing can report.  Signals are       *)
(* delivered between two steps of a script, which is where bash runs a     *)
(* trap handler.                                                           *)
(***************************************************************************)
EXTENDS Integers, Sequences, FiniteSets, TLC

VARIABLES
    script,        \* which script / command this behaviour executes
    opts,          \* command line flags of test-against-develop.sh
    pc,            \* index of the current step in the script's plan
    phase,         \* "running" | "exiting" (exit called, traps pending) | "exited"
    attempt,       \* loop counter of the readiness gate being executed
    trapSet,       \* is the cleanup trap installed
    pending,       \* status passed to exit / status of the last command
    exitStatus,    \* exit status of the process, -1 while it runs
    docker,        \* [containers, network, volumes]: what exists in the daemon
    started,       \* sequence of the service sets handed to `up -d`, in order
    gateOK,        \* services whose readiness gate returned ready
    gateFailed,    \* service whose readiness gate returned not-ready, or "none"
    logsShown,     \* services whose logs were printed
    testsRun,      \* has the integration-tests command been started
    testCode,      \* exit code recorded for the tests, -1 before
    cleanLog,      \* one record per invocation of the cleanup function
    signals,       \* number of SIGINT/SIGTERM received
    afterTeardown, \* did an orchestration step run after a cleanup
    gate,          \* the gate being executed / last executed, with its probe count
    elapsed,       \* seconds the runner has slept in its wait loops since the
                   \* stopwatch was started; -1 when the run is not timed
    mongoClient,   \* setup.ts: "undefined" | "connected"
    backendAPI,    \* setup.ts: default headers of the shared axios instance
    authTokens,    \* setup.ts: the keys that have a token in authTokens
    sent,          \* Authorization carried by the last request sent through
                   \* backendAPI without an explicit header, "idle" before
    thrown,        \* the error beforeAll rejected with, "none" without
    db,            \* MongoDB: database name -> [users, figures], the documents
    now,           \* Date.now(), in hours since the fixtures were inserted
    db0,           \* the documents the server held when the session started
    backendDb,     \* the database the backend service reads and writes
    succeeded,     \* the keys for which a call of authenticateUser has resolved
    lastAuth,      \* the last call of authenticateUser: its key, the response
                   \* it received, whether it threw, and the state it found
    lastGet,       \* the last call of getAuthenticatedAPI: its key, its result,
                   \* and whether authenticateUser had resolved for the key
    lastCleanup,   \* the last call of cleanupTestData: the deletes it completed
                   \* and whether it threw
    authenticatedAPI, \* the client the describe block of the test file shares:
                   \* its key and its defaults.timeout, in ms
    lastRequest,   \* the last request a test sent through authenticatedAPI:
                   \* the test and the timeout it was sent with
    lastTest,      \* position in the test file of the last test that ran
    serviceStats,  \* collect-coverage.js: this.serviceStats, service name ->
                   \* "stats" (coverage statistics) | "error" (an error record)
    collected,     \* one record per service collectAll has visited: what its
                   \* container extraction, volume extraction and processing did
    reports        \* the reports the collector has generated, in order

\* the MongoDB server and the clock, as the Jest session sees them
mongo == << db, db0, now, backendDb >>

\* what a Jest session has observed of the helpers of setup.ts
session == << succeeded, lastAuth, lastGet, lastCleanup, authenticatedAPI,
             lastRequest, lastTest >>

\* the module state of setup.ts, and what it reaches through mongoClient
setup_ts == << mongoClient, backendAPI, authTokens, sent, thrown, mongo, session >>

\* the state of a CoverageCollector and the files it has written
collector == << serviceStats, collected, reports >>

vars == << script, opts, pc, phase, attempt, trapSet, pending, exitStatus,
           docker, started, gateOK, gateFailed, logsShown, testsRun, testCode,
           cleanLog, signals, afterTeardown, gate, elapsed, setup_ts, collector >>

(***************************************************************************)
(* Bounds of the model                                                     *)
(***************************************************************************)
MaxSignals == 1
MaxRetriesArg == 3
\* hours between the seeding of the databases and the Jest session
MaxHours == 2
\* tests of the test file of a Jest session
MaxTests == 2

(***************************************************************************)
(* Services and environment outcomes                                       *)
(***************************************************************************)
MONGO == "mongodb-test"
VM == "version-manager-test"
SCRAPER == "scraper-test"
BACKEND == "backend-test"
FRONTEND == "frontend-test"
TESTS == "integration-tests"

Services == {MONGO, VM, SCRAPER, BACKEND, FRONTEND}

\* exit status of an external command: success or failure
CmdStatus == {0, 1}
\* exit code of the Jest container / npm run test:integration
TestExitCodes == {0, 1}
\* what {{.State.Health.Status}} can print for an existing container
HealthStatuses == {"healthy", "unhealthy", "starting", "none"}
\* outcome of one HTTP GET: a response status, or -1 for no response
\* (connection refused, DNS failure, timeout)
HttpOutcomes == {200, 302, 399, 400, 404, 499, 500, 503, -1}

EmptyDocker == [containers |-> {}, network |-> FALSE, volumes |-> FALSE]
FullDocker == [containers |-> Services, network |-> TRUE, volumes |-> TRUE]

NoGate == [name |-> "none", max |-> 0, probes |-> 0, firstOK |-> 0,
           extra |-> 0, last |-> "none", result |-> "idle"]

(***************************************************************************)
(* Configuration of integration-test-runner.sh                             *)
(***************************************************************************)
TIMEOUT == 600
HEALTH_CHECK_INTERVAL == 10
MAX_RETRIES == 60

Step(op, svcs, c, max) == [op |-> op, svcs |-> svcs, c |-> c, max |-> max]

\* run_integration_tests with Phase 3 started before the scraper's gate
run_integration_tests_early_backend ==
    << Step("validate", {}, "none", 0),
       Step("predown", {}, "none", 0),
       Step("up", {MONGO}, "none", 0),
       Step("gate", {}, MONGO, MAX_RETRIES),
       Step("up", {VM, SCRAPER}, "none", 0),
       Step("gate", {}, VM, 60),
       Step("up", {BACKEND}, "none", 0),
       Step("gate", {}, SCRAPER, MAX_RETRIES),
       Step("gate", {}, BACKEND, MAX_RETRIES),
       Step("up", {FRONTEND}, "none", 0),
       Step("gate", {}, FRONTEND, 40),
       Step("conn", {}, "frontend-to-backend", 10),
       Step("status", {}, "none", 0),
       Step("tests", {}, "none", 0),
       Step("results", {}, "none", 0) >>

\* run_integration_tests: the commands of the function, in order
run_integration_tests ==
    << Step("validate", {}, "none", 0),
       Step("predown", {}, "none", 0),
       Step("up", {MONGO}, "none", 0),
       Step("gate", {}, MONGO, MAX_RETRIES),
       Step("up", {VM, SCRAPER}, "none", 0),
       Step("gate", {}, VM, 60),
       Step("gate", {}, SCRAPER, MAX_RETRIES),
       Step("up", {BACKEND}, "none", 0),
       Step("gate", {}, BACKEND, MAX_RETRIES),
       Step("up", {FRONTEND}, "none", 0),
       Step("gate", {}, FRONTEND, 40),
       Step("conn", {}, "frontend-to-backend", 10),
       Step("status", {}, "none", 0),
       Step("tests", {}, "none", 0),
       Step("results", {}, "none", 0) >>

\* case "clean": cleanup
runner_clean == << Step("clean", {}, "none", 0) >>

\* run_debug_mode: the commands of the function, in order; the trap is
\* removed by its last command
run_debug_mode ==
    << Step("validate", {}, "none", 0),
       Step("up", {MONGO, VM, SCRAPER, BACKEND, FRONTEND}, "none", 0),
       Step("gate", {}, MONGO, MAX_RETRIES),
       Step("gate", {}, VM, MAX_RETRIES),
       Step("gate", {}, SCRAPER, MAX_RETRIES),
       Step("gate", {}, BACKEND, MAX_RETRIES),
       Step("gate", {}, FRONTEND, MAX_RETRIES),
       Step("status", {}, "none", 0),
       Step("untrap", {}, "none", 0) >>

\* case "test" that gates on mongodb-test before it runs the tests
runner_test_gated ==
    << Step("gate", {}, MONGO, MAX_RETRIES),
       Step("specific", {}, "none", 0) >>

\* case "test": the pattern check and run_specific_tests
runner_test == << Step("specific", {}, "none", 0) >>

\* case "status": show_service_status
runner_status == << Step("status", {}, "none", 0) >>

\* case "logs": the service name check and show_service_logs
runner_logs == << Step("logs", {}, "none", 0) >>

(***************************************************************************)
(* Configuration of run-with-prebuilt.sh                                   *)
(***************************************************************************)
\* the commands of run-with-prebuilt.sh after the trap is installed
run_with_prebuilt ==
    << Step("pull", {}, "none", 0),
       Step("up", {MONGO, VM, SCRAPER}, "none", 0),
       Step("wait", {}, MONGO, 0),
       Step("wait", {}, VM, 0),
       Step("wait", {}, SCRAPER, 0),
       Step("up", {BACKEND, FRONTEND}, "none", 0),
       Step("wait", {}, BACKEND, 0),
       Step("wait", {}, FRONTEND, 0),
       Step("tests", {}, "none", 0) >>

(***************************************************************************)
(* Configuration of validate-orchestration.sh                              *)
(***************************************************************************)
\* the service name validate-orchestration.sh uses for the version service
VERSION_SERVICE == "version-service-test"

\* the commands of validate-orchestration.sh after the trap is installed
validate_orchestration ==
    << Step("up", {MONGO}, "none", 0),
       Step("loop", {}, MONGO, 20),
       Step("up", {VERSION_SERVICE, SCRAPER}, "none", 0),
       Step("loop", {}, VERSION_SERVICE, 15),
       Step("loop", {}, SCRAPER, 30),
       Step("up", {BACKEND}, "none", 0),
       Step("loop", {}, BACKEND, 25),
       Step("up", {FRONTEND}, "none", 0),
       Step("loop", {}, FRONTEND, 20),
       Step("connectivity", {}, "none", 0) >>

(***************************************************************************)
(* Configuration of test-against-develop.sh                                *)
(***************************************************************************)
\* local max_attempts=30 of check_service_health
max_attempts == 30

\* the commands of test-against-develop.sh after the trap is installed
test_against_develop ==
    << Step("pull", {}, "none", 0),
       Step("predown", {}, "none", 0),
       Step("up", {MONGO, BACKEND, FRONTEND, SCRAPER, VM}, "none", 0),
       Step("health", {}, MONGO, max_attempts),
       Step("health", {}, VM, max_attempts),
       Step("health", {}, SCRAPER, max_attempts),
       Step("health", {}, BACKEND, max_attempts),
       Step("health", {}, FRONTEND, max_attempts),
       Step("ps", {}, "none", 0),
       Step("healthonly", {}, "none", 0),
       Step("tests", {}, "none", 0),
       Step("report", {}, "none", 0) >>

\* the command line flags of test-against-develop.sh that change its control flow
DevelopFlags == {"--pull", "--no-cleanup", "--health-only"}

(***************************************************************************)
(* The docker daemon                                                       *)
(***************************************************************************)
\* docker-compose up -d <svcs>: creates the project network and volumes and
\* the named containers
ComposeUp(d, svcs) ==
    [containers |-> d.containers \cup svcs, network |-> TRUE, volumes |-> TRUE]

\* docker-compose down [--volumes]: removes the project containers and the
\* network, and the volumes only with --volumes; a no-op on an empty project
ComposeDown(d, withVolumes) ==
    [containers |-> {}, network |-> FALSE,
     volumes |-> IF withVolumes THEN FALSE ELSE d.volumes]

\* exit status of `docker network rm <net>`: fails when the network is absent
NetworkRmStatus(d) == IF d.network THEN 0 ELSE 1

\* docker inspect --format='{{.State.Health.Status}}' c: what it can print
\* for container c; the inspect fails for a container that does not exist
InspectOutcomes(d, c) ==
    IF c \in d.containers THEN HealthStatuses \cup {"inspect-failed"}
    ELSE {"inspect-failed"}

(***************************************************************************)
(* integration-test-runner.sh                                              *)
(***************************************************************************)
\* check_container_health that also reports an empty health status as not-found
check_container_health_empty(out) ==
    IF out \in {"inspect-failed", "none"} THEN "not-found" ELSE out

\* check_container_health: `docker inspect ... || echo "not-found"`
check_container_health(out) == IF out = "inspect-failed" THEN "not-found" ELSE out

\* `cmd` without `|| true`: the status of cmd is kept
OrTrue_missing(rc) == rc

\* `cmd || true`: the status of cmd is discarded
OrTrue(rc) == 0

\* cleanup() of integration-test-runner.sh, run under `set -e`: the first
\* failing command ends the shell with its status.
\*   docker-compose ... down --volumes --remove-orphans
\*   docker container prune -f
\*   docker network rm ${PROJECT_NAME}_integration-network 2>/dev/null || true
Runner_cleanup(d, rcDown, rcPrune) ==
    LET d1 == ComposeDown(d, TRUE)
        rcNet == OrTrue(NetworkRmStatus(d1))
        d2 == [d1 EXCEPT !.network = FALSE]
    IN  IF rcDown # 0
        THEN [docker |-> d, rc |-> rcDown, steps |-> 1, done |-> FALSE, exits |-> TRUE,
              fault |-> TRUE]
        ELSE IF rcPrune # 0
        THEN [docker |-> d1, rc |-> rcPrune, steps |-> 2, done |-> FALSE, exits |-> TRUE,
              fault |-> TRUE]
        ELSE IF rcNet # 0
        THEN [docker |-> d1, rc |-> rcNet, steps |-> 3, done |-> FALSE, exits |-> TRUE,
              fault |-> FALSE]
        ELSE [docker |-> d2, rc |-> 0, steps |-> 3, done |-> TRUE, exits |-> FALSE,
              fault |-> FALSE]

\* curl -f that accepts 2xx responses only
CurlF_2xx(outcome) == outcome >= 200 /\ outcome < 300

\* curl -f -s <url>: exit status 0 iff a response with status < 400 arrived
CurlF(outcome) == outcome >= 0 /\ outcome < 400

IsRunner == script \in {"runner_run", "runner_clean", "runner_debug", "runner_test",
                         "runner_status", "runner_logs"}

Plan ==
    CASE script = "runner_run" -> run_integration_tests
      [] script = "runner_clean" -> runner_clean
      [] script = "runner_debug" -> run_debug_mode
      [] script = "runner_test" -> runner_test
      [] script = "runner_status" -> runner_status
      [] script = "runner_logs" -> runner_logs
      [] script = "prebuilt" -> run_with_prebuilt
      [] script = "validate" -> validate_orchestration
      [] script = "develop" -> test_against_develop
      [] OTHER -> << >>

Running == phase = "running" /\ pc <= Len(Plan)
Cur == Plan[pc]

\* the shell calls exit (or `set -e` ends it) with status s
Exit(s) == /\ phase' = "exiting"
           /\ pending' = s

\* the current step completed; the next command is reached
Advance == pc' = pc + 1

\* an orchestration step executes: remember whether a teardown preceded it
Ran == afterTeardown' = (afterTeardown \/ cleanLog # << >>)

CleanRecord(by, r) ==
    [by |-> by, rc |-> r.rc, steps |-> r.steps, done |-> r.done, exits |-> r.exits,
     fault |-> r.fault, after |-> r.docker]

\* validate_environment: exit 1 when docker, docker-compose or the compose
\* file is missing
validate_environment ==
    /\ IsRunner /\ Running /\ Cur.op = "validate"
    /\ \E ok \in BOOLEAN :
          IF ok THEN Advance /\ UNCHANGED << phase, pending >>
                ELSE Exit(1) /\ UNCHANGED pc
    /\ Ran
    /\ UNCHANGED << script, collector, elapsed, setup_ts, opts, attempt, trapSet, exitStatus, docker, started,
                    gateOK, gateFailed, logsShown, testsRun, testCode, cleanLog,
                    signals, gate >>

\* mkdir -p results; docker-compose down --volumes --remove-orphans || true
Runner_predown ==
    /\ script = "runner_run" /\ Running /\ Cur.op = "predown"
    /\ \E rc \in CmdStatus :
          docker' = IF rc = 0 THEN ComposeDown(docker, TRUE) ELSE docker
    /\ Advance /\ Ran
    /\ UNCHANGED << script, collector, elapsed, setup_ts, opts, phase, attempt, trapSet, pending, exitStatus,
                    started, gateOK, gateFailed, logsShown, testsRun, testCode,
                    cleanLog, signals, gate >>

\* docker-compose up -d <services>, as script s runs it: under set -e a
\* failing up ends the script
UpStep(s) ==
    /\ script = s /\ Running /\ Cur.op = "up"
    /\ \E rc \in CmdStatus :
          IF rc = 0
          THEN /\ docker' = ComposeUp(docker, Cur.svcs)
               /\ Advance
               /\ UNCHANGED << phase, pending >>
          ELSE /\ Exit(rc)
               /\ UNCHANGED << docker, pc >>
    /\ started' = Append(started, Cur.svcs)
    /\ Ran
    /\ UNCHANGED << script, collector, elapsed, setup_ts, opts, attempt, trapSet, exitStatus, gateOK,
                    gateFailed, logsShown, testsRun, testCode, cleanLog,
                    signals, gate >>

\* Phase 1-4 of run_integration_tests: docker-compose up -d <services of the phase>
Runner_up == UpStep("runner_run")

\* run_debug_mode: docker-compose up -d <the five services>
Debug_up == UpStep("runner_debug")

\* a failed runner gate that is only logged: the script goes on
Runner_gate_failed_warn(c) ==
    /\ gateFailed' = c
    /\ logsShown' = logsShown \cup {c}
    /\ Advance
    /\ UNCHANGED << phase, pending >>

\* the caller of a failed runner gate.  run_integration_tests: log_error;
\* show_service_logs c 100; exit 1 (a failing `docker-compose logs` ends the
\* script with its status).  run_debug_mode calls the gate as a plain
\* command: its status 1 ends the script under set -e.
Runner_gate_failed(c) ==
    /\ gateFailed' = c
    /\ IF script = "runner_debug"
       THEN /\ Exit(1)
            /\ UNCHANGED logsShown
       ELSE /\ logsShown' = logsShown \cup {c}
            /\ \E rc \in CmdStatus : Exit(IF rc = 0 THEN 1 ELSE rc)
    /\ UNCHANGED pc

\* sleep $HEALTH_CHECK_INTERVAL: the time slept so far in a timed run,
\* followed up to the first value beyond TIMEOUT
Sleep(t) ==
    IF t < 0 THEN t
    ELSE IF t + HEALTH_CHECK_INTERVAL > TIMEOUT THEN TIMEOUT + HEALTH_CHECK_INTERVAL
    ELSE t + HEALTH_CHECK_INTERVAL

\* wait_for_container_health, entry: local attempt=1
wait_for_container_health_enter ==
    /\ IsRunner /\ Running /\ Cur.op = "gate"
    /\ gate.result # "waiting"
    /\ attempt' = 1
    /\ gate' = [name |-> Cur.c, max |-> Cur.max, probes |-> 0, firstOK |-> 0,
                extra |-> 0, last |-> "none", result |-> "waiting"]
    /\ Ran
    /\ UNCHANGED << script, collector, elapsed, setup_ts, opts, pc, phase, trapSet, pending, exitStatus,
                    docker, started, gateOK, gateFailed, logsShown, testsRun,
                    testCode, cleanLog, signals >>

\* wait_for_container_health, one iteration of the while loop
wait_for_container_health_iter ==
    /\ IsRunner /\ Running /\ Cur.op = "gate"
    /\ gate.result = "waiting"
    /\ attempt <= Cur.max
    /\ \E out \in InspectOutcomes(docker, Cur.c) :
          LET health_status == check_container_health(out)
              n == gate.probes + 1
              first == IF gate.firstOK = 0 /\ out = "healthy" THEN n ELSE gate.firstOK
          IN  CASE health_status = "healthy" ->
                     /\ gate' = [gate EXCEPT !.probes = n, !.firstOK = first, !.last = out,
                                             !.result = "ready"]
                     /\ gateOK' = gateOK \cup {Cur.c}
                     /\ Advance
                     /\ UNCHANGED << attempt, phase, pending, gateFailed, logsShown,
                                     elapsed >>
                [] health_status = "not-found" ->
                     /\ gate' = [gate EXCEPT !.probes = n, !.firstOK = first, !.last = out,
                                             !.result = "failed"]
                     /\ Runner_gate_failed(Cur.c)
                     /\ UNCHANGED << attempt, gateOK, elapsed >>
                [] OTHER ->
                     /\ gate' = [gate EXCEPT !.probes = n, !.firstOK = first, !.last = out]
                     /\ elapsed' = Sleep(elapsed)
                     /\ attempt' = attempt + 1
                     /\ UNCHANGED << pc, phase, pending, gateOK, gateFailed, logsShown >>
    /\ Ran
    /\ UNCHANGED << script, collector, setup_ts, opts, trapSet, exitStatus, docker, started, testsRun,
                    testCode, cleanLog, signals >>

\* wait_for_container_health, after the loop: log the final status (one more
\* docker inspect) and return 1
wait_for_container_health_exhausted ==
    /\ IsRunner /\ Running /\ Cur.op = "gate"
    /\ gate.result = "waiting"
    /\ attempt > Cur.max
    /\ gate' = [gate EXCEPT !.extra = 1, !.result = "failed"]
    /\ Runner_gate_failed(Cur.c)
    /\ Ran
    /\ UNCHANGED << script, collector, elapsed, setup_ts, opts, attempt, trapSet, exitStatus, docker, started,
                    gateOK, testsRun, testCode, cleanLog, signals >>

\* wait_for_service, entry: local attempt=1
wait_for_service_enter ==
    /\ script = "runner_run" /\ Running /\ Cur.op = "conn"
    /\ gate.result # "waiting"
    /\ attempt' = 1
    /\ gate' = [name |-> Cur.c, max |-> Cur.max, probes |-> 0, firstOK |-> 0,
                extra |-> 0, last |-> "none", result |-> "waiting"]
    /\ Ran
    /\ UNCHANGED << script, collector, elapsed, setup_ts, opts, pc, phase, trapSet, pending, exitStatus,
                    docker, started, gateOK, gateFailed, logsShown, testsRun,
                    testCode, cleanLog, signals >>

\* wait_for_service, one iteration: curl -f -s <endpoint>; return 0 on
\* success, else sleep and ((attempt++))
wait_for_service_iter ==
    /\ script = "runner_run" /\ Running /\ Cur.op = "conn"
    /\ gate.result = "waiting"
    /\ attempt <= Cur.max
    /\ \E outcome \in HttpOutcomes :
          LET n == gate.probes + 1
              first == IF gate.firstOK = 0 /\ outcome >= 0 /\ outcome < 400
                       THEN n ELSE gate.firstOK
          IN  IF CurlF(outcome)
              THEN /\ gate' = [gate EXCEPT !.probes = n, !.firstOK = first,
                                           !.result = "ready"]
                   /\ Advance
                   /\ UNCHANGED << attempt, elapsed >>
              ELSE /\ gate' = [gate EXCEPT !.probes = n, !.firstOK = first]
                   /\ elapsed' = Sleep(elapsed)
                   /\ attempt' = attempt + 1
                   /\ UNCHANGED pc
    /\ Ran
    /\ UNCHANGED << script, collector, setup_ts, opts, phase, trapSet, pending, exitStatus, docker,
                    started, gateOK, gateFailed, logsShown, testsRun, testCode,
                    cleanLog, signals >>

\* wait_for_service whose failure ends the script like a failed phase gate
wait_for_service_exhausted_abort ==
    /\ script = "runner_run" /\ Running /\ Cur.op = "conn"
    /\ gate.result = "waiting"
    /\ attempt > Cur.max
    /\ gate' = [gate EXCEPT !.result = "failed"]
    /\ Exit(1) /\ Ran
    /\ UNCHANGED << script, collector, elapsed, setup_ts, opts, pc, attempt, trapSet, exitStatus,
                    docker, started, gateOK, gateFailed, logsShown, testsRun,
                    testCode, cleanLog, signals >>

\* wait_for_service, after the loop: return 1; the caller only warns
\* ("Frontend to backend connectivity issue") and goes on
wait_for_service_exhausted ==
    /\ script = "runner_run" /\ Running /\ Cur.op = "conn"
    /\ gate.result = "waiting"
    /\ attempt > Cur.max
    /\ gate' = [gate EXCEPT !.result = "failed"]
    /\ Advance /\ Ran
    /\ UNCHANGED << script, collector, elapsed, setup_ts, opts, phase, attempt, trapSet, pending, exitStatus,
                    docker, started, gateOK, gateFailed, logsShown, testsRun,
                    testCode, cleanLog, signals >>

\* show_service_status: docker-compose ps, under set -e
show_service_status ==
    /\ IsRunner /\ Running /\ Cur.op = "status"
    /\ \E rc \in CmdStatus :
          IF rc = 0 THEN Advance /\ UNCHANGED << phase, pending >>
                    ELSE Exit(rc) /\ UNCHANGED pc
    /\ Ran
    /\ UNCHANGED << script, collector, elapsed, setup_ts, opts, attempt, trapSet, exitStatus, docker, started,
                    gateOK, gateFailed, logsShown, testsRun, testCode, cleanLog,
                    signals, gate >>

\* Phase 5: docker-compose up --no-deps --abort-on-container-exit
\* integration-tests (under set -e), then the container's exit code is read
\* with docker inspect (|| echo "1") and the test logs are shown on failure.
\* `up --abort-on-container-exit` returns 0 or the exit code of the container,
\* depending on the compose implementation.
Runner_tests ==
    /\ script = "runner_run" /\ Running /\ Cur.op = "tests"
    /\ testsRun' = TRUE
    /\ \E code \in TestExitCodes, upRc \in CmdStatus, logRc \in CmdStatus :
        /\ upRc \in {0, code}
        /\ IF upRc # 0
           THEN /\ Exit(upRc)
                /\ docker' = ComposeUp(docker, {TESTS})
                /\ testCode' = code
                /\ UNCHANGED << pc, logsShown >>
           ELSE LET d1 == ComposeUp(docker, {TESTS})
                    container_exit_code == code
                IN  /\ docker' = d1
                    /\ testCode' = container_exit_code
                    /\ IF container_exit_code = 0
                       THEN /\ logRc = 0
                            /\ Advance
                            /\ UNCHANGED << phase, pending, logsShown >>
                       ELSE /\ logsShown' = logsShown \cup {TESTS}
                            /\ IF logRc = 0
                               THEN Advance /\ UNCHANGED << phase, pending >>
                               ELSE Exit(logRc) /\ UNCHANGED pc
    /\ Ran
    /\ UNCHANGED << script, collector, elapsed, setup_ts, opts, attempt, trapSet, exitStatus, started, gateOK,
                    gateFailed, cleanLog, signals, gate >>

\* result extraction (every docker cp is guarded by ||), then
\* return $container_exit_code, which is the status the script ends with
Runner_results ==
    /\ script = "runner_run" /\ Running /\ Cur.op = "results"
    /\ Exit(testCode)
    /\ Advance /\ Ran
    /\ UNCHANGED << script, collector, elapsed, setup_ts, opts, attempt, trapSet, exitStatus, docker, started,
                    gateOK, gateFailed, logsShown, testsRun, testCode, cleanLog,
                    signals, gate >>

\* case "clean": cleanup is called explicitly (set -e applies to its
\* commands); the script then ends with the status of its last command
Runner_clean ==
    /\ script = "runner_clean" /\ Running /\ Cur.op = "clean"
    /\ \E rcDown \in CmdStatus, rcPrune \in CmdStatus :
          LET r == Runner_cleanup(docker, rcDown, rcPrune)
          IN  /\ docker' = r.docker
              /\ cleanLog' = Append(cleanLog, CleanRecord("call", r))
              /\ Exit(r.rc)
    /\ Advance
    /\ UNCHANGED << script, collector, elapsed, setup_ts, opts, attempt, trapSet, exitStatus, started, gateOK,
                    gateFailed, logsShown, testsRun, testCode, signals,
                    afterTeardown, gate >>

\* run_debug_mode, last command: trap - EXIT INT TERM
Debug_untrap ==
    /\ script = "runner_debug" /\ Running /\ Cur.op = "untrap"
    /\ trapSet' = FALSE
    /\ Advance /\ Ran
    /\ UNCHANGED << script, collector, elapsed, setup_ts, opts, phase, attempt, pending, exitStatus, docker,
                    started, gateOK, gateFailed, logsShown, testsRun, testCode,
                    cleanLog, signals, gate >>

\* case "test": exit 1 without a pattern; else run_specific_tests:
\* docker-compose run --rm integration-tests bash -c "npm run test:integration
\* -- --testNamePattern=...", whose status is the status of the script.
\* Which services `run` starts for integration-tests is decided by the
\* compose file: none, or the services it depends on.
run_specific_tests ==
    /\ script = "runner_test" /\ Running /\ Cur.op = "specific"
    /\ IF "arg" \notin opts
       THEN /\ Exit(1)
            /\ UNCHANGED << docker, testsRun, testCode >>
       ELSE \E code \in TestExitCodes, deps \in {{}, Services} :
              /\ testsRun' = TRUE
              /\ testCode' = code
              /\ docker' = ComposeUp(docker, deps)
              /\ Exit(code)
    /\ Advance /\ Ran
    /\ UNCHANGED << script, collector, elapsed, setup_ts, opts, attempt, trapSet, exitStatus, started, gateOK,
                    gateFailed, logsShown, cleanLog, signals, gate >>

\* case "logs": exit 1 without a service name; else show_service_logs:
\* docker-compose logs --tail=<lines> <service>
Runner_logs ==
    /\ script = "runner_logs" /\ Running /\ Cur.op = "logs"
    /\ IF "arg" \notin opts
       THEN /\ Exit(1)
            /\ UNCHANGED logsShown
       ELSE \E c \in Services, rc \in CmdStatus :
              /\ logsShown' = logsShown \cup {c}
              /\ Exit(rc)
    /\ Advance /\ Ran
    /\ UNCHANGED << script, collector, elapsed, setup_ts, opts, attempt, trapSet, exitStatus, docker, started,
                    gateOK, gateFailed, testsRun, testCode, cleanLog, signals, gate >>

\* the end of the script is reached: the shell exits with the status of the
\* last command, which succeeded
Runner_end ==
    /\ IsRunner /\ phase = "running" /\ pc > Len(Plan)
    /\ Exit(0)
    /\ UNCHANGED << script, collector, elapsed, setup_ts, opts, pc, attempt, trapSet, exitStatus, docker, started,
                    gateOK, gateFailed, logsShown, testsRun, testCode, cleanLog,
                    signals, afterTeardown, gate >>

(***************************************************************************)
(* run-with-prebuilt.sh                                                    *)
(***************************************************************************)
\* cleanup() of run-with-prebuilt.sh, called as `cleanup $?` under set -e:
\* docker compose down -v; exit $1
Prebuilt_cleanup(d, rcDown, arg) ==
    IF rcDown # 0
    THEN [docker |-> d, rc |-> rcDown, steps |-> 1, done |-> FALSE, exits |-> TRUE,
          fault |-> TRUE]
    ELSE [docker |-> ComposeDown(d, TRUE), rc |-> arg, steps |-> 2, done |-> TRUE,
          exits |-> TRUE, fault |-> FALSE]

\* the line `docker compose ps` prints for container c, if any
PsLines(d, c) ==
    IF c \in d.containers
    THEN [state : {"running", "Up", "exited"},
          health : {"healthy", "unhealthy", "starting", "none"}]
    ELSE {[state |-> "absent", health |-> "none"]}

\* grep -E "(healthy|running)": the line contains "healthy" (as "unhealthy"
\* does) or "running"
GrepHealthyRunning(line) ==
    \/ line.health \in {"healthy", "unhealthy"}
    \/ line.state = "running"

\* the status a line of `docker compose ps` reports for its container: the
\* health in parentheses when the container has a health check that has
\* settled, else the state of the container
Reported(line) ==
    IF line.health \in {"healthy", "unhealthy"} THEN line.health ELSE line.state

\* docker login (optional) and docker compose pull, under set -e
Prebuilt_pull ==
    /\ script = "prebuilt" /\ Running /\ Cur.op = "pull"
    /\ \E rc \in CmdStatus :
          IF rc = 0 THEN Advance /\ UNCHANGED << phase, pending >>
                    ELSE Exit(rc) /\ UNCHANGED pc
    /\ Ran
    /\ UNCHANGED << script, collector, elapsed, setup_ts, opts, attempt, trapSet, exitStatus, docker, started,
                    gateOK, gateFailed, logsShown, testsRun, testCode, cleanLog,
                    signals, gate >>

\* docker compose up -d mongodb-test version-manager-test scraper-test /
\* backend-test frontend-test
Prebuilt_up == UpStep("prebuilt")

\* timeout 120 bash -c 'until docker compose ps | grep -E "(healthy|running)"
\* | grep -q <c>; do sleep 2; done': returns 0 at the first matching line,
\* 124 when none matched in time (set -e then ends the script)
Prebuilt_wait ==
    /\ script = "prebuilt" /\ Running /\ Cur.op = "wait"
    /\ \E line \in PsLines(docker, Cur.c) :
          IF GrepHealthyRunning(line)
          THEN /\ gate' = [name |-> Cur.c, max |-> 0, probes |-> 1,
                           firstOK |-> IF line.health = "healthy" THEN 1 ELSE 0,
                           extra |-> 0, last |-> Reported(line), result |-> "ready"]
               /\ gateOK' = gateOK \cup {Cur.c}
               /\ Advance
               /\ UNCHANGED << phase, pending, gateFailed >>
          ELSE /\ gate' = [name |-> Cur.c, max |-> 0, probes |-> 1, firstOK |-> 0,
                           extra |-> 0, last |-> "none", result |-> "failed"]
               /\ gateFailed' = Cur.c
               /\ Exit(124)
               /\ UNCHANGED << pc, gateOK >>
    /\ Ran
    /\ UNCHANGED << script, collector, elapsed, setup_ts, opts, attempt, trapSet, exitStatus, docker, started,
                    logsShown, testsRun, testCode, cleanLog, signals >>

\* docker compose up --exit-code-from integration-tests integration-tests,
\* under set -e: a non-zero status ends the script at once, so EXIT_CODE=$?
\* and the branches after it are reached with status 0 only
Prebuilt_tests ==
    /\ script = "prebuilt" /\ Running /\ Cur.op = "tests"
    /\ testsRun' = TRUE
    /\ \E code \in TestExitCodes :
          /\ testCode' = code
          /\ docker' = ComposeUp(docker, {TESTS})
          /\ Exit(code)
    /\ Advance /\ Ran
    /\ UNCHANGED << script, collector, elapsed, setup_ts, opts, attempt, trapSet, exitStatus, started, gateOK,
                    gateFailed, logsShown, cleanLog, signals, gate >>

(***************************************************************************)
(* validate-orchestration.sh                                               *)
(***************************************************************************)
\* cleanup() of validate-orchestration.sh: docker-compose down --volumes
\* --remove-orphans 2>/dev/null || true
Validate_cleanup(d, rcDown) ==
    [docker |-> IF rcDown = 0 THEN ComposeDown(d, TRUE) ELSE d,
     rc |-> 0, steps |-> 1, done |-> TRUE, exits |-> FALSE, fault |-> rcDown # 0]

\* the `status` a health endpoint can report in its response body
Bodies == {"healthy", "ok", "unhealthy", "degraded"}

\* grep -q "ok\|healthy": the body contains "ok" or "healthy" (as
\* "unhealthy" does)
GrepOkHealthy(body) == body \in {"ok", "healthy", "unhealthy"}

\* what one probe of service c can observe: the answer of mongosh's ping for
\* MongoDB, the HTTP outcome and the body's status for the others
Validate_observations(c) ==
    CASE c = MONGO -> [ping : BOOLEAN, outcome : {-1}, body : {"ok"}]
      [] c = FRONTEND -> [ping : {FALSE}, outcome : HttpOutcomes, body : {"ok"}]
      [] OTHER -> [ping : {FALSE}, outcome : HttpOutcomes, body : Bodies]

\* the readiness test validate-orchestration.sh applies to service c:
\*   docker exec mongodb-test mongosh ... | grep -q "1"
\*   curl -f <health url> | grep -q "ok\|healthy"
\*   curl -f http://localhost:5056
Validate_probe(c, obs) ==
    CASE c = MONGO -> obs.ping
      [] c = FRONTEND -> CurlF(obs.outcome)
      [] OTHER -> CurlF(obs.outcome) /\ GrepOkHealthy(obs.body)

\* the service really is healthy in observation obs
Validate_healthy(c, obs) ==
    CASE c = MONGO -> obs.ping
      [] c = FRONTEND -> obs.outcome >= 0 /\ obs.outcome < 400
      [] OTHER -> obs.outcome >= 0 /\ obs.outcome < 400 /\ obs.body \in {"ok", "healthy"}

\* docker-compose up -d <services of the phase>
Validate_up == UpStep("validate")

\* for i in {1..N}: if <probe>; then break; fi; if [ $i -eq N ]; then
\* log_error; docker logs <c>; exit 1; fi; sleep; done -- one iteration
Validate_loop ==
    /\ script = "validate" /\ Running /\ Cur.op = "loop"
    /\ \E obs \in Validate_observations(Cur.c) :
          LET fresh == gate.result # "waiting"
              i == IF fresh THEN 1 ELSE attempt
              n == IF fresh THEN 1 ELSE gate.probes + 1
              was == IF fresh THEN 0 ELSE gate.firstOK
              g == [name |-> Cur.c, max |-> Cur.max, probes |-> n,
                    firstOK |-> IF was = 0 /\ Validate_healthy(Cur.c, obs) THEN n ELSE was,
                    extra |-> 0, last |-> "none", result |-> "waiting"]
          IN  IF Validate_probe(Cur.c, obs)
              THEN /\ gate' = [g EXCEPT !.result = "ready", !.last = obs.body]
                   /\ gateOK' = gateOK \cup {Cur.c}
                   /\ Advance
                   /\ attempt' = i
                   /\ UNCHANGED << phase, pending, gateFailed, logsShown >>
              ELSE IF i = Cur.max
              THEN /\ gate' = [g EXCEPT !.result = "failed"]
                   /\ gateFailed' = Cur.c
                   /\ logsShown' = logsShown \cup {Cur.c}
                   /\ \E rc \in CmdStatus : Exit(IF rc = 0 THEN 1 ELSE rc)
                   /\ attempt' = i
                   /\ UNCHANGED << pc, gateOK >>
              ELSE /\ gate' = g
                   /\ attempt' = i + 1
                   /\ UNCHANGED << pc, phase, pending, gateOK, gateFailed, logsShown >>
    /\ Ran
    /\ UNCHANGED << script, collector, elapsed, setup_ts, opts, trapSet, exitStatus, docker, started, testsRun,
                    testCode, cleanLog, signals >>

\* Phase 5: three connectivity checks (backend to version service, to
\* scraper, to MongoDB), each `if docker exec ... | grep -q ...; then
\* log_success; else log_warning; fi`; the script then ends with the status
\* of its last log_info.  The gate record keeps the number of checks made
\* and the first one that passed; result is "failed" when a check warned.
Validate_connectivity ==
    /\ script = "validate" /\ Running /\ Cur.op = "connectivity"
    /\ \E version \in BOOLEAN, scraper \in BOOLEAN, database \in BOOLEAN :
          gate' = [name |-> "connectivity", max |-> 3, probes |-> 3,
                   firstOK |-> IF version THEN 1 ELSE IF scraper THEN 2
                               ELSE IF database THEN 3 ELSE 0,
                   extra |-> 0, last |-> "none",
                   result |-> IF version /\ scraper /\ database
                              THEN "ready" ELSE "failed"]
    /\ Exit(0)
    /\ Advance /\ Ran
    /\ UNCHANGED << script, collector, elapsed, setup_ts, opts, attempt, trapSet, exitStatus, docker, started,
                    gateOK, gateFailed, logsShown, testsRun, testCode, cleanLog,
                    signals >>

(***************************************************************************)
(* test-against-develop.sh                                                 *)
(***************************************************************************)
\* cleanup() of test-against-develop.sh, under set -e: docker-compose down
\* when CLEANUP = true, a message otherwise
Develop_cleanup(d, rcDown, CLEANUP) ==
    IF CLEANUP
    THEN IF rcDown # 0
         THEN [docker |-> d, rc |-> rcDown, steps |-> 1, done |-> FALSE, exits |-> TRUE,
               fault |-> TRUE]
         ELSE [docker |-> ComposeDown(d, FALSE), rc |-> 0, steps |-> 2, done |-> TRUE,
               exits |-> FALSE, fault |-> FALSE]
    ELSE [docker |-> d, rc |-> 0, steps |-> 0, done |-> TRUE, exits |-> FALSE,
          fault |-> FALSE]

\* Step 1: docker pull of the four images when --pull is given, under set -e
Develop_pull ==
    /\ script = "develop" /\ Running /\ Cur.op = "pull"
    /\ \E rc \in CmdStatus :
          IF "--pull" \in opts /\ rc # 0
          THEN Exit(rc) /\ UNCHANGED pc
          ELSE Advance /\ UNCHANGED << phase, pending >>
    /\ Ran
    /\ UNCHANGED << script, collector, elapsed, setup_ts, opts, attempt, trapSet, exitStatus, docker, started,
                    gateOK, gateFailed, logsShown, testsRun, testCode, cleanLog,
                    signals, gate >>

\* Step 2: docker-compose down 2>/dev/null || true
Develop_predown ==
    /\ script = "develop" /\ Running /\ Cur.op = "predown"
    /\ \E rc \in CmdStatus :
          docker' = IF rc = 0 THEN ComposeDown(docker, FALSE) ELSE docker
    /\ Advance /\ Ran
    /\ UNCHANGED << script, collector, elapsed, setup_ts, opts, phase, attempt, trapSet, pending, exitStatus,
                    started, gateOK, gateFailed, logsShown, testsRun, testCode,
                    cleanLog, signals, gate >>

\* Step 3: docker-compose up -d of the five services
Develop_up == UpStep("develop")

\* check_service_health, entry: local max_attempts=30; local attempt=0
check_service_health_enter ==
    /\ script = "develop" /\ Running /\ Cur.op = "health"
    /\ gate.result # "waiting"
    /\ attempt' = 0
    /\ gate' = [name |-> Cur.c, max |-> Cur.max, probes |-> 0, firstOK |-> 0,
                extra |-> 0, last |-> "none", result |-> "waiting"]
    /\ Ran
    /\ UNCHANGED << script, collector, elapsed, setup_ts, opts, pc, phase, trapSet, pending, exitStatus,
                    docker, started, gateOK, gateFailed, logsShown, testsRun,
                    testCode, cleanLog, signals >>

\* check_service_health, one iteration: curl -sf <url>; return 0 on success,
\* else attempt=$((attempt + 1)); sleep 2
check_service_health_iter ==
    /\ script = "develop" /\ Running /\ Cur.op = "health"
    /\ gate.result = "waiting"
    /\ attempt < Cur.max
    /\ \E outcome \in HttpOutcomes :
          LET n == gate.probes + 1
              first == IF gate.firstOK = 0 /\ outcome >= 0 /\ outcome < 400
                       THEN n ELSE gate.firstOK
          IN  IF CurlF(outcome)
              THEN /\ gate' = [gate EXCEPT !.probes = n, !.firstOK = first,
                                           !.result = "ready"]
                   /\ gateOK' = gateOK \cup {Cur.c}
                   /\ Advance
                   /\ UNCHANGED attempt
              ELSE /\ gate' = [gate EXCEPT !.probes = n, !.firstOK = first]
                   /\ attempt' = attempt + 1
                   /\ UNCHANGED << pc, gateOK >>
    /\ Ran
    /\ UNCHANGED << script, collector, elapsed, setup_ts, opts, phase, trapSet, pending, exitStatus, docker,
                    started, gateFailed, logsShown, testsRun, testCode, cleanLog,
                    signals >>

\* check_service_health, after the loop: return 1, and the caller's `|| exit 1`
check_service_health_exhausted ==
    /\ script = "develop" /\ Running /\ Cur.op = "health"
    /\ gate.result = "waiting"
    /\ attempt >= Cur.max
    /\ gate' = [gate EXCEPT !.result = "failed"]
    /\ gateFailed' = Cur.c
    /\ Exit(1)
    /\ Ran
    /\ UNCHANGED << script, collector, elapsed, setup_ts, opts, pc, attempt, trapSet, exitStatus, docker,
                    started, gateOK, logsShown, testsRun, testCode, cleanLog,
                    signals >>

\* Step 5: docker-compose ps, under set -e
Develop_ps ==
    /\ script = "develop" /\ Running /\ Cur.op = "ps"
    /\ \E rc \in CmdStatus :
          IF rc = 0 THEN Advance /\ UNCHANGED << phase, pending >>
                    ELSE Exit(rc) /\ UNCHANGED pc
    /\ Ran
    /\ UNCHANGED << script, collector, elapsed, setup_ts, opts, attempt, trapSet, exitStatus, docker, started,
                    gateOK, gateFailed, logsShown, testsRun, testCode, cleanLog,
                    signals, gate >>

\* Step 6 without `trap - EXIT INT TERM`: exit 0 with the trap installed
Develop_healthonly_trap_kept ==
    /\ script = "develop" /\ Running /\ Cur.op = "healthonly"
    /\ IF "--health-only" \in opts
       THEN /\ Exit(0)
            /\ UNCHANGED << trapSet, pc >>
       ELSE /\ Advance
            /\ UNCHANGED << trapSet, phase, pending >>
    /\ Ran
    /\ UNCHANGED << script, collector, elapsed, setup_ts, opts, attempt, exitStatus, docker, started, gateOK,
                    gateFailed, logsShown, testsRun, testCode, cleanLog, signals,
                    gate >>

\* Step 6: with --health-only: trap - EXIT INT TERM; exit 0
Develop_healthonly ==
    /\ script = "develop" /\ Running /\ Cur.op = "healthonly"
    /\ IF "--health-only" \in opts
       THEN /\ trapSet' = FALSE
            /\ Exit(0)
            /\ UNCHANGED pc
       ELSE /\ Advance
            /\ UNCHANGED << trapSet, phase, pending >>
    /\ Ran
    /\ UNCHANGED << script, collector, elapsed, setup_ts, opts, attempt, exitStatus, docker, started, gateOK,
                    gateFailed, logsShown, testsRun, testCode, cleanLog, signals,
                    gate >>

\* Step 7: if npm run test:integration; then TEST_EXIT_CODE=0; else
\* TEST_EXIT_CODE=1; fi
Develop_tests ==
    /\ script = "develop" /\ Running /\ Cur.op = "tests"
    /\ testsRun' = TRUE
    /\ \E code \in TestExitCodes : testCode' = IF code = 0 THEN 0 ELSE 1
    /\ Advance /\ Ran
    /\ UNCHANGED << script, collector, elapsed, setup_ts, opts, phase, attempt, trapSet, pending, exitStatus,
                    docker, started, gateOK, gateFailed, logsShown, cleanLog,
                    signals, gate >>

\* Steps 8-10 (coverage and result display are guarded; the service logs are
\* printed only with --verbose, which is not modelled), then exit $TEST_EXIT_CODE
Develop_report ==
    /\ script = "develop" /\ Running /\ Cur.op = "report"
    /\ Exit(testCode)
    /\ Advance /\ Ran
    /\ UNCHANGED << script, collector, elapsed, setup_ts, opts, attempt, trapSet, exitStatus, docker, started,
                    gateOK, gateFailed, logsShown, testsRun, testCode, cleanLog,
                    signals, gate >>

(***************************************************************************)
(* setup.ts: waitForService                                                *)
(***************************************************************************)
\* axios' default validateStatus: 2xx only
validateStatus_2xx(status) == status >= 200 /\ status < 300

\* validateStatus: (status) => status < 500
validateStatus(status) == status < 500

\* beforeAll with the Page Scraper awaited before the Version Service
setup_beforeAll_scraper_first ==
    << Step("await", {}, "Page Scraper", 30),
       Step("await", {}, "Version Service", 30),
       Step("await", {}, "Backend", 45),
       Step("await", {}, "Frontend", 45),
       Step("connect", {}, "none", 0),
       Step("verify", {}, "none", 0),
       Step("authenticate", {}, "USER1", 0),
       Step("authenticate", {}, "USER2", 0),
       Step("authenticate", {}, "SEARCH_USER", 0) >>

\* the statements of the beforeAll hook, in order: the two loops over
\* infrastructureServices and coreServices, the MongoDB connection, the test
\* data verification and the loop over TEST_USERS
setup_beforeAll ==
    << Step("await", {}, "Version Service", 30),
       Step("await", {}, "Page Scraper", 30),
       Step("await", {}, "Backend", 45),
       Step("await", {}, "Frontend", 45),
       Step("connect", {}, "none", 0),
       Step("verify", {}, "none", 0),
       Step("authenticate", {}, "USER1", 0),
       Step("authenticate", {}, "USER2", 0),
       Step("authenticate", {}, "SEARCH_USER", 0) >>

\* what Jest runs once beforeAll has resolved: a test that sends a request
\* through backendAPI
suite == << Step("request", {}, "none", 0) >>

\* what Jest runs for one test file after the beforeAll of setup.ts, with n
\* tests: the body of each test (and the hooks of the file's describe
\* blocks), afterEach after each of them, and afterAll at the end
\* beforeAll of the describe block 'Frontend -> Backend Integration Tests'
describe_beforeAll == << Step("describe", {}, "USER1", 0) >>

RECURSIVE test_file(_)
test_file(n) ==
    IF n = 0 THEN << Step("afterAll", {}, "none", 0) >>
    ELSE << Step("test", {}, "none", 0), Step("afterEach", {}, "none", 0) >>
         \o test_file(n - 1)

\* the statements of a Jest session: the beforeAll hook alone, followed by
\* one request ("beforeAll"), or the session of a whole test file ("jest")
JestPlan ==
    CASE script = "beforeAll" -> setup_beforeAll \o suite
      [] script = "jest" -> setup_beforeAll \o describe_beforeAll
                            \o test_file(MaxTests)
      [] OTHER -> << >>

InHook(op) == /\ script \in {"beforeAll", "jest"} /\ phase = "running"
              /\ pc <= Len(JestPlan) /\ JestPlan[pc].op = op

\* a hook of setup.ts rejects: nothing after the throw is executed in the
\* hook; Jest does not run the bodies of the tests, and goes on with the
\* hooks of the file, afterEach and afterAll
HookReject ==
    IF script = "jest"
    THEN pc' = Len(setup_beforeAll) + 1 /\ UNCHANGED phase
    ELSE phase' = "exited" /\ UNCHANGED pc

\* a call of waitForService is executing: the call alone, or the one
\* beforeAll awaits
InWaitForService ==
    \/ script = "waitForService" /\ phase = "running"
    \/ InHook("await") /\ gate.result = "waiting"

\* a not-ready gate that beforeAll only logs
beforeAll_throw_ignored(name) ==
    /\ gateFailed' = name
    /\ Advance
    /\ UNCHANGED << phase, thrown >>

\* if (!isReady) throw new Error(`${service.name} failed to become ready
\* within timeout`): the hook rejects, nothing after it is executed
beforeAll_throw(name) ==
    /\ gateFailed' = name
    /\ thrown' = name
    /\ HookReject

\* waitForService returns: to the caller of the model's single call, or to
\* the loop of beforeAll that awaits it
waitForService_return(isReady) ==
    IF script = "waitForService"
    THEN /\ phase' = "exited"
         /\ UNCHANGED << pc, gateOK, gateFailed, thrown >>
    ELSE IF isReady
    THEN /\ gateOK' = gateOK \cup {gate.name}
         /\ Advance
         /\ UNCHANGED << phase, gateFailed, thrown >>
    ELSE /\ beforeAll_throw(gate.name)
         /\ UNCHANGED gateOK

\* beforeAll: const isReady = await waitForService(service.url, n, 3000)
waitForService_enter ==
    /\ InHook("await")
    /\ gate.result # "waiting"
    /\ attempt' = 0
    /\ gate' = [name |-> JestPlan[pc].c, max |-> JestPlan[pc].max, probes |-> 0,
                firstOK |-> 0, extra |-> 0, last |-> "none", result |-> "waiting"]
    /\ UNCHANGED << script, collector, elapsed, setup_ts, opts, pc, phase, trapSet, pending,
                    exitStatus, docker, started, gateOK, gateFailed, logsShown,
                    testsRun, testCode, cleanLog, signals, afterTeardown >>

\* waitForService, one iteration of `for (let i = 0; i < maxRetries; i++)`:
\* axios.get rejects when no response arrives or validateStatus is false;
\* a response with status < 400 returns true
waitForService_iter ==
    /\ InWaitForService
    /\ attempt < gate.max
    /\ \E outcome \in HttpOutcomes :
          LET rejected == outcome < 0 \/ ~validateStatus(outcome)
              n == gate.probes + 1
              first == IF gate.firstOK = 0 /\ outcome >= 0 /\ outcome < 400
                       THEN n ELSE gate.firstOK
          IN  IF ~rejected /\ outcome < 400
              THEN /\ gate' = [gate EXCEPT !.probes = n, !.firstOK = first,
                                           !.result = "ready"]
                   /\ waitForService_return(TRUE)
                   /\ UNCHANGED attempt
              ELSE /\ gate' = [gate EXCEPT !.probes = n, !.firstOK = first]
                   /\ attempt' = attempt + 1
                   /\ UNCHANGED << pc, phase, gateOK, gateFailed, thrown >>
    /\ UNCHANGED << script, collector, elapsed, mongo, session, mongoClient, backendAPI, authTokens, sent,
                    opts, trapSet, pending, exitStatus, docker, started,
                    logsShown, testsRun, testCode, cleanLog, signals,
                    afterTeardown >>

\* waitForService, after the loop: return false
waitForService_exhausted ==
    /\ InWaitForService
    /\ attempt >= gate.max
    /\ gate' = [gate EXCEPT !.result = "failed"]
    /\ waitForService_return(FALSE)
    /\ UNCHANGED << script, collector, elapsed, mongo, session, mongoClient, backendAPI, authTokens, sent,
                    opts, attempt, trapSet, pending, exitStatus, docker,
                    started, logsShown, testsRun, testCode, cleanLog, signals,
                    afterTeardown >>

(***************************************************************************)
(* MongoDB: the two databases and the scripts that seed them               *)
(***************************************************************************)
\* const db = mongoClient.db('figcollector_test') of beforeAll, the database
\* of TEST_CONFIG.MONGODB_URI
VERIFIED_DB == "figcollector_test"

\* const db = mongoClient.db('figure_collector_test') of cleanupTestData, the
\* database of init-test-data.js
CLEANUP_DB == "figure_collector_test"

DbNames == {VERIFIED_DB, CLEANUP_DB}

EmptyDb == [users |-> {}, figures |-> {}]

\* an e-mail address is the sequence of its parts
EXAMPLE_COM == "@example.com"

\* TEST_USERS: the e-mail address of each key
TEST_USERS ==
    [k \in {"USER1", "USER2", "SEARCH_USER"} |->
        CASE k = "USER1" -> << "test", "1", EXAMPLE_COM >>
          [] k = "USER2" -> << "test", "2", EXAMPLE_COM >>
          [] k = "SEARCH_USER" -> << "search", EXAMPLE_COM >>]

FixtureEmails == {TEST_USERS[k] : k \in DOMAIN TEST_USERS}

\* SAMPLE_FIGURES: createdAt: new Date(), evaluated when the script runs (t)
SAMPLE_FIGURES(t) ==
    {[name |-> n, createdAt |-> t] :
        n \in {"Test Figure 1", "Test Figure 2", "Search Test Figure"}}

\* initializeTestData of init-test-data.js, run at time t on database d:
\* delete the fixture users and figures, insert them again
initializeTestData(d, t) ==
    [users |-> (d.users \ FixtureEmails) \cup FixtureEmails,
     figures |-> {f \in d.figures :
                     f.name \notin {g.name : g \in SAMPLE_FIGURES(t)}}
                 \cup SAMPLE_FIGURES(t)]

\* initTestData, the script that seeds figcollector_test, run at time t:
\* deleteMany({}) on both collections, then the three users and four figures
initTestData(t) ==
    [users |-> FixtureEmails,
     figures |-> {[name |-> n, createdAt |-> t] :
                     n \in {"Hatsune Miku", "Rem", "Zero Two", "Saber Lily"}}]

\* what the MongoDB server can hold when a Jest session starts: each seeding
\* script has run (at hour 0) or not, and initTestData may have stopped
\* after inserting the users
SeededServers ==
    {[n \in DbNames |-> IF n = VERIFIED_DB THEN v ELSE c] :
        v \in {EmptyDb, [initTestData(0) EXCEPT !.figures = {}], initTestData(0)},
        c \in {EmptyDb, initializeTestData(EmptyDb, 0)}}

(***************************************************************************)
(* setup.ts: beforeAll, authenticateUser and the shared backendAPI client  *)
(***************************************************************************)
\* the keys of TEST_USERS
TestUserKeys == {"USER1", "USER2", "SEARCH_USER"}

\* mongoClient = new MongoClient(uri); await mongoClient.connect(): the
\* variable is assigned before connect, which may reject; the two loops over
\* the services are over and their variables out of scope
beforeAll_connect ==
    /\ InHook("connect")
    /\ gate' = NoGate /\ attempt' = 0
    /\ \E ok \in BOOLEAN :
          IF ok THEN /\ mongoClient' = "connected"
                     /\ Advance
                     /\ UNCHANGED << phase, thrown >>
                ELSE /\ mongoClient' = "unconnected"
                     /\ thrown' = "connect"
                     /\ HookReject
    /\ UNCHANGED << script, collector, elapsed, mongo, session, backendAPI, authTokens, sent, opts,
                    trapSet, pending, exitStatus, docker, started, gateOK,
                    gateFailed, logsShown, testsRun, testCode, cleanLog, signals,
                    afterTeardown >>

\* a verification that fails only when both collections are empty
beforeAll_verify_both_empty ==
    /\ InHook("verify")
    /\ \E ok \in BOOLEAN :
          LET userCount == Cardinality(db[VERIFIED_DB].users)
              figureCount == Cardinality(db[VERIFIED_DB].figures)
          IN  IF ok /\ ~(userCount = 0 /\ figureCount = 0)
              THEN /\ Advance
                   /\ UNCHANGED << phase, thrown >>
              ELSE /\ thrown' = IF ok THEN "Test data not found" ELSE "countDocuments"
                   /\ HookReject
    /\ UNCHANGED << script, collector, elapsed, mongo, session, mongoClient, backendAPI, authTokens, sent,
                    opts, attempt, trapSet, pending, exitStatus, docker, started,
                    gateOK, gateFailed, logsShown, testsRun, testCode, cleanLog,
                    signals, afterTeardown, gate >>

\* const db = mongoClient.db('figcollector_test'); countDocuments of users
\* and of figures (either may reject); throw 'Test data not found' when
\* userCount === 0 || figureCount === 0
beforeAll_verify ==
    /\ InHook("verify")
    /\ \E ok \in BOOLEAN :
          LET userCount == Cardinality(db[VERIFIED_DB].users)
              figureCount == Cardinality(db[VERIFIED_DB].figures)
          IN  IF ok /\ ~(userCount = 0 \/ figureCount = 0)
              THEN /\ Advance
                   /\ UNCHANGED << phase, thrown >>
              ELSE /\ thrown' = IF ok THEN "Test data not found" ELSE "countDocuments"
                   /\ HookReject
    /\ UNCHANGED << script, collector, elapsed, mongo, session, mongoClient, backendAPI, authTokens, sent,
                    opts, attempt, trapSet, pending, exitStatus, docker, started,
                    gateOK, gateFailed, logsShown, testsRun, testCode, cleanLog,
                    signals, afterTeardown, gate >>

\* what POST /users/login can produce: a 2xx response carrying
\* data.data.token; a 2xx response without data.data (the read of .token
\* throws inside the try); no 2xx response (axios rejects)
LoginResponses == {"token", "malformed", "rejected"}

\* authenticateUser storing authTokens[username] before the response arrives
authenticateUser_store_first(key, response) ==
    /\ authTokens' = authTokens \cup {key}
    /\ IF response = "token"
       THEN /\ backendAPI' = [backendAPI EXCEPT !.Authorization = key]
            /\ succeeded' = succeeded \cup {key}
       ELSE UNCHANGED << backendAPI, succeeded >>
    /\ lastAuth' = [key |-> key, response |-> response,
                    threw |-> response # "token", tokens |-> authTokens,
                    header |-> backendAPI.Authorization]

\* authenticateUser(key, password): POST /users/login through backendAPI;
\* with a token in the response, authTokens[key] = token and the token
\* becomes the default Authorization header of backendAPI; whatever is
\* thrown inside the try is logged and rethrown
authenticateUser(key, response) ==
    /\ IF response = "token"
       THEN /\ authTokens' = authTokens \cup {key}
            /\ backendAPI' = [backendAPI EXCEPT !.Authorization = key]
            /\ succeeded' = succeeded \cup {key}
       ELSE UNCHANGED << authTokens, backendAPI, succeeded >>
    /\ lastAuth' = [key |-> key, response |-> response,
                    threw |-> response # "token", tokens |-> authTokens,
                    header |-> backendAPI.Authorization]

\* await authenticateUser(key, user.password) in the loop over TEST_USERS of
\* beforeAll: the hook rethrows what the call throws
authenticateUser_called ==
    /\ InHook("authenticate")
    /\ \E response \in LoginResponses :
          /\ authenticateUser(JestPlan[pc].c, response)
          /\ IF response = "token"
             THEN Advance /\ UNCHANGED << phase, thrown >>
             ELSE thrown' = "login" /\ HookReject
    /\ UNCHANGED << script, collector, elapsed, mongo, lastGet, lastCleanup, authenticatedAPI,
                    lastRequest, lastTest, mongoClient, sent,
                    opts, attempt, trapSet, pending, exitStatus, docker, started,
                    gateOK, gateFailed, logsShown, testsRun, testCode, cleanLog,
                    signals, afterTeardown, gate >>

\* await authenticateUser(key, ...) called by a test or a hook of the test
\* file (lines 449, 888-889): when it throws, the caller fails and the
\* session goes on
test_authenticateUser ==
    /\ InHook("test")
    /\ \E key \in TestUserKeys, response \in LoginResponses :
          authenticateUser(key, response)
    /\ Advance
    /\ UNCHANGED << script, collector, elapsed, mongo, lastGet, lastCleanup, authenticatedAPI,
                    lastRequest, lastTest, mongoClient, sent, thrown,
                    opts, phase, attempt, trapSet, pending, exitStatus, docker,
                    started, gateOK, gateFailed, logsShown, testsRun, testCode,
                    cleanLog, signals, afterTeardown, gate >>

\* the client getAuthenticatedAPI returns: axios.create({ timeout: 30000,
\* headers: { Authorization: `Bearer ${token}` } })
NewClient(key) == [key |-> key, timeout |-> 30000]

NoClient == [key |-> "none", timeout |-> 0]

\* beforeAll of the describe block: userToken = await
\* authenticateUser('USER1', ...); authenticatedAPI =
\* getAuthenticatedAPI('USER1'); when it rejects, the bodies of the tests
\* are not run
describe_beforeAll_hook ==
    /\ InHook("describe")
    /\ \E response \in LoginResponses :
          LET key == JestPlan[pc].c
          IN  /\ authenticateUser(key, response)
              /\ IF response = "token"
                 THEN /\ lastGet' = [key |-> key, result |-> "client",
                                     authenticated |-> TRUE]
                      /\ authenticatedAPI' = NewClient(key)
                      /\ UNCHANGED thrown
                 ELSE /\ thrown' = IF thrown = "none" THEN "describe" ELSE thrown
                      /\ UNCHANGED << lastGet, authenticatedAPI >>
    /\ Advance
    /\ UNCHANGED << script, collector, elapsed, mongo, lastCleanup, lastRequest, lastTest,
                    mongoClient, sent, opts, phase, attempt, trapSet, pending,
                    exitStatus, docker, started, gateOK, gateFailed, logsShown,
                    testsRun, testCode, cleanLog, signals, afterTeardown, gate >>

\* getAuthenticatedAPI(key), called by a test or a hook of the file:
\* const token = authTokens[key]; if (!token) throw new Error('No auth token
\* found ...'); else a new axios instance carrying the token
getAuthenticatedAPI ==
    /\ InHook("test")
    /\ \E key \in TestUserKeys :
          lastGet' = [key |-> key,
                      result |-> IF key \in authTokens THEN "client"
                                 ELSE "No auth token found",
                      authenticated |-> key \in succeeded]
    /\ Advance
    /\ UNCHANGED << script, collector, elapsed, mongo, succeeded, lastAuth, lastCleanup,
                    authenticatedAPI, lastRequest, lastTest,
                    mongoClient, backendAPI, authTokens, sent, thrown, opts,
                    phase, attempt, trapSet, pending, exitStatus, docker, started,
                    gateOK, gateFailed, logsShown, testsRun, testCode, cleanLog,
                    signals, afterTeardown, gate >>

\* a test whose body Jest does not run, because beforeAll rejected
test_skipped ==
    /\ InHook("test")
    /\ thrown # "none"
    /\ Advance
    /\ UNCHANGED << script, collector, elapsed, setup_ts, opts, phase, attempt, trapSet,
                    pending, exitStatus, docker, started, gateOK, gateFailed,
                    logsShown, testsRun, testCode, cleanLog, signals,
                    afterTeardown, gate >>

\* a test calls backendAPI.get(<protected endpoint>) with no headers of its
\* own: axios sends the defaults of the instance
backendAPI_get ==
    /\ InHook("request")
    /\ sent' = backendAPI.Authorization
    /\ testsRun' = TRUE
    /\ phase' = "exited"
    /\ Advance
    /\ UNCHANGED << script, collector, elapsed, mongo, session, mongoClient, backendAPI, authTokens, thrown,
                    opts, attempt, trapSet, pending, exitStatus, docker, started,
                    gateOK, gateFailed, logsShown, testCode, cleanLog, signals,
                    afterTeardown, gate >>

(***************************************************************************)
(* frontend-backend-integration.test.ts: the tests that use the shared     *)
(* authenticatedAPI                                                        *)
(***************************************************************************)
\* the tests of the file the model runs, in the order of the file
TestsOfFile ==
    << "User registration through frontend to backend",
       "Create figure through frontend to backend",
       "Network error resilience",
       "Create-Read-Update-Delete consistency" >>

\* the body of the test at position i of the file runs now: Jest runs the
\* tests in the order of the file (a name pattern may leave tests out), and
\* no body after a hook rejected
RunsTest(i) ==
    /\ InHook("test")
    /\ thrown = "none"
    /\ lastTest < i

\* email: `test_${Date.now()}@example.com`
RegisteredEmail == << "test", "_", "Date.now()", EXAMPLE_COM >>

\* the document the backend stores for the figure a test posts at time t
TestFigure(t) == [name |-> "Frontend Test Figure", createdAt |-> t]

\* test 'User registration through frontend to backend':
\* backendAPI.post('/api/users/register', newUser); the backend stores the
\* user in its database when it answers 201
test_user_registration ==
    /\ RunsTest(1)
    /\ lastTest' = 1
    /\ \E created \in BOOLEAN :
          db' = IF created
                THEN [db EXCEPT ![backendDb].users = @ \cup {RegisteredEmail}]
                ELSE db
    /\ Advance
    /\ UNCHANGED << script, collector, elapsed, db0, now, backendDb, succeeded, lastAuth,
                    lastGet, lastCleanup, authenticatedAPI, lastRequest,
                    mongoClient, backendAPI, authTokens, sent, thrown, opts,
                    phase, attempt, trapSet, pending, exitStatus, docker, started,
                    gateOK, gateFailed, logsShown, testsRun, testCode, cleanLog,
                    signals, afterTeardown, gate >>

\* test 'Create figure through frontend to backend':
\* authenticatedAPI.post('/api/figures', figureData); the backend stores the
\* figure, created now, when the request reaches it
test_create_figure ==
    /\ RunsTest(2)
    /\ lastTest' = 2
    /\ lastRequest' = [test |-> TestsOfFile[2], timeout |-> authenticatedAPI.timeout]
    /\ \E created \in BOOLEAN :
          db' = IF created
                THEN [db EXCEPT ![backendDb].figures = @ \cup {TestFigure(now)}]
                ELSE db
    /\ Advance
    /\ UNCHANGED << script, collector, elapsed, db0, now, backendDb, succeeded, lastAuth,
                    lastGet, lastCleanup, authenticatedAPI, mongoClient,
                    backendAPI, authTokens, sent, thrown, opts, phase, attempt,
                    trapSet, pending, exitStatus, docker, started, gateOK,
                    gateFailed, logsShown, testsRun, testCode, cleanLog, signals,
                    afterTeardown, gate >>

\* test 'Network error resilience': const timeoutAPI = authenticatedAPI;
\* timeoutAPI.defaults.timeout = 1; await timeoutAPI.get('/api/figures')
test_network_error_resilience ==
    /\ RunsTest(3)
    /\ lastTest' = 3
    /\ authenticatedAPI' = [authenticatedAPI EXCEPT !.timeout = 1]
    /\ lastRequest' = [test |-> TestsOfFile[3], timeout |-> authenticatedAPI'.timeout]
    /\ Advance
    /\ UNCHANGED << script, collector, elapsed, mongo, succeeded, lastAuth, lastGet, lastCleanup,
                    mongoClient, backendAPI, authTokens, sent, thrown, opts,
                    phase, attempt, trapSet, pending, exitStatus, docker, started,
                    gateOK, gateFailed, logsShown, testsRun, testCode, cleanLog,
                    signals, afterTeardown, gate >>

\* test 'Create-Read-Update-Delete consistency': post, get, put, get, delete
\* and get through authenticatedAPI; the figure it creates it deletes
test_crud_consistency ==
    /\ RunsTest(4)
    /\ lastTest' = 4
    /\ lastRequest' = [test |-> TestsOfFile[4], timeout |-> authenticatedAPI.timeout]
    /\ Advance
    /\ UNCHANGED << script, collector, elapsed, mongo, succeeded, lastAuth, lastGet, lastCleanup,
                    authenticatedAPI, mongoClient, backendAPI, authTokens, sent,
                    thrown, opts, phase, attempt, trapSet, pending, exitStatus,
                    docker, started, gateOK, gateFailed, logsShown, testsRun,
                    testCode, cleanLog, signals, afterTeardown, gate >>

(***************************************************************************)
(* setup.ts: cleanupTestData, afterEach and afterAll                       *)
(***************************************************************************)
\* 60 * 60 * 1000 ms, in hours
HOUR == 1

\* { createdAt: { $gte: new Date(Date.now() - 60 * 60 * 1000) } }
CreatedInLastHour(f, t) == f.createdAt >= t - HOUR

\* { email: { $regex: /test-.*@example\.com/ } }: somewhere in the address
\* "test-", and after it "@example.com"
MatchesTestDash(email) ==
    \E i \in 1..Len(email) : \E j \in 1..Len(email) :
        /\ i + 1 < j
        /\ email[i] = "test" /\ email[i + 1] = "-"
        /\ email[j] = EXAMPLE_COM

\* cleanupTestData without its try/catch: a failing delete is thrown
cleanupTestData_uncaught(client, d, t, okFigures, okUsers) ==
    IF client = "undefined"
    THEN [db |-> d, deletes |-> 0, threw |-> FALSE]
    ELSE LET c == d[CLEANUP_DB]
             d1 == [d EXCEPT ![CLEANUP_DB].figures =
                                {f \in c.figures : ~CreatedInLastHour(f, t)}]
             d2 == [d1 EXCEPT ![CLEANUP_DB].users =
                                {u \in c.users : ~MatchesTestDash(u)}]
         IN  IF ~okFigures THEN [db |-> d, deletes |-> 0, threw |-> TRUE]
             ELSE IF ~okUsers THEN [db |-> d1, deletes |-> 1, threw |-> TRUE]
             ELSE [db |-> d2, deletes |-> 2, threw |-> FALSE]

\* cleanupTestData, at time t, on server contents d: nothing without a
\* client; else on mongoClient.db('figure_collector_test') delete the figures
\* created in the last hour, then the users whose e-mail matches the regex;
\* a delete that rejects ends the try block, the error is logged
cleanupTestData(client, d, t, okFigures, okUsers) ==
    IF client = "undefined"
    THEN [db |-> d, deletes |-> 0, threw |-> FALSE]
    ELSE LET c == d[CLEANUP_DB]
             d1 == [d EXCEPT ![CLEANUP_DB].figures =
                                {f \in c.figures : ~CreatedInLastHour(f, t)}]
             d2 == [d1 EXCEPT ![CLEANUP_DB].users =
                                {u \in c.users : ~MatchesTestDash(u)}]
         IN  IF ~okFigures THEN [db |-> d, deletes |-> 0, threw |-> FALSE]
             ELSE IF ~okUsers THEN [db |-> d1, deletes |-> 1, threw |-> FALSE]
             ELSE [db |-> d2, deletes |-> 2, threw |-> FALSE]

\* what a delete on this client can do: it needs a connection
DeleteOutcomes == IF mongoClient = "connected" THEN BOOLEAN ELSE {FALSE}

\* afterEach(async () => { await cleanupTestData(); })
afterEach ==
    /\ InHook("afterEach")
    /\ \E okFigures \in DeleteOutcomes, okUsers \in DeleteOutcomes :
          LET r == cleanupTestData(mongoClient, db, now, okFigures, okUsers)
          IN  /\ db' = r.db
              /\ lastCleanup' = [by |-> "afterEach", client |-> mongoClient,
                                 deletes |-> r.deletes, threw |-> r.threw]
    /\ Advance
    /\ UNCHANGED << script, collector, elapsed, db0, now, backendDb, succeeded, lastAuth, lastGet,
                    authenticatedAPI, lastRequest, lastTest,
                    mongoClient, backendAPI, authTokens, sent, thrown, opts,
                    phase, attempt, trapSet, pending, exitStatus, docker, started,
                    gateOK, gateFailed, logsShown, testsRun, testCode, cleanLog,
                    signals, afterTeardown, gate >>

\* afterAll: await cleanupTestData(); if (mongoClient) await
\* mongoClient.close(); the statements after a throw are not executed
afterAll ==
    /\ InHook("afterAll")
    /\ \E okFigures \in DeleteOutcomes, okUsers \in DeleteOutcomes :
          LET r == cleanupTestData(mongoClient, db, now, okFigures, okUsers)
          IN  /\ db' = r.db
              /\ lastCleanup' = [by |-> "afterAll", client |-> mongoClient,
                                 deletes |-> r.deletes, threw |-> r.threw]
              /\ mongoClient' = IF ~r.threw /\ mongoClient # "undefined"
                                THEN "closed" ELSE mongoClient
    /\ phase' = "exited"
    /\ Advance
    /\ UNCHANGED << script, collector, elapsed, db0, now, backendDb, succeeded, lastAuth, lastGet,
                    authenticatedAPI, lastRequest, lastTest,
                    backendAPI, authTokens, sent, thrown, opts, attempt, trapSet,
                    pending, exitStatus, docker, started, gateOK, gateFailed,
                    logsShown, testsRun, testCode, cleanLog, signals,
                    afterTeardown, gate >>

(***************************************************************************)
(* Traps of the shell scripts                                              *)
(***************************************************************************)
IsShell == IsRunner \/ script \in {"prebuilt", "validate", "develop"}

\* the cleanup function the running script registered with trap
cleanup(d, rcDown, rcPrune, arg) ==
    CASE IsRunner -> Runner_cleanup(d, rcDown, rcPrune)
      [] script = "prebuilt" -> Prebuilt_cleanup(d, rcDown, arg)
      [] script = "validate" -> Validate_cleanup(d, rcDown)
      [] script = "develop" ->
             Develop_cleanup(d, rcDown, "--no-cleanup" \notin opts)

\* statuses `docker container prune -f` can return; only the runner's cleanup
\* runs it
CleanupInputs == IF IsRunner THEN CmdStatus ELSE {0}

\* trap cleanup ... INT TERM, on SIGINT/SIGTERM: bash runs the handler between
\* two commands and then resumes the script where it was, unless the handler
\* ended the shell (exit, or a failing command under set -e)
signal_trap ==
    /\ IsShell /\ Running /\ trapSet
    /\ signals < MaxSignals
    /\ signals' = signals + 1
    /\ \E rcDown \in CmdStatus, rcPrune \in CleanupInputs, st \in CmdStatus :
          LET r == cleanup(docker, rcDown, rcPrune, st)
          IN  /\ script # "prebuilt" => st = 0
              /\ docker' = r.docker
              /\ cleanLog' = Append(cleanLog, CleanRecord("signal", r))
              /\ IF r.exits THEN Exit(r.rc) ELSE UNCHANGED << phase, pending >>
    /\ UNCHANGED << script, collector, elapsed, setup_ts, opts, pc, attempt, trapSet, exitStatus, started,
                    gateOK, gateFailed, logsShown, testsRun, testCode,
                    afterTeardown, gate >>

\* `trap cleanup INT TERM`, without EXIT: the shell exits with no handler
exit_trap_no_EXIT ==
    /\ IsShell /\ phase = "exiting"
    /\ phase' = "exited"
    /\ exitStatus' = pending
    /\ UNCHANGED << script, collector, elapsed, setup_ts, opts, pc, attempt, trapSet, pending, docker, started,
                    gateOK, gateFailed, logsShown, testsRun, testCode, cleanLog,
                    signals, afterTeardown, gate >>

\* trap cleanup EXIT ...: when the shell exits, the handler runs (once more,
\* if a signal ran it before); a handler that ends the shell itself decides
\* the exit status
exit_trap ==
    /\ IsShell /\ phase = "exiting"
    /\ phase' = "exited"
    /\ IF trapSet
       THEN \E rcDown \in CmdStatus, rcPrune \in CleanupInputs :
              LET r == cleanup(docker, rcDown, rcPrune, pending)
              IN  /\ docker' = r.docker
                  /\ cleanLog' = Append(cleanLog, CleanRecord("exit", r))
                  /\ exitStatus' = IF r.exits THEN r.rc ELSE pending
       ELSE /\ exitStatus' = pending
            /\ UNCHANGED << docker, cleanLog >>
    /\ UNCHANGED << script, collector, elapsed, setup_ts, opts, pc, attempt, trapSet, pending, started, gateOK,
                    gateFailed, logsShown, testsRun, testCode, signals,
                    afterTeardown, gate >>

(***************************************************************************)
(* coverage-collector/collect-coverage.js                                  *)
(***************************************************************************)
\* CONFIG.services, by name, in the order of the array
CONFIG_services == << "backend", "frontend", "page-scraper", "version-manager" >>

ServiceNames == {CONFIG_services[i] : i \in 1..Len(CONFIG_services)}

\* const reportTypes = ['html', 'lcov', 'text', 'json']
reportTypes == {"html", "lcov", "text", "json"}

\* what an extraction does: it returns, or it throws (docker cp fails, no
\* volume path exists, a copy fails)
Extractions == {"ok", "failed"}

\* what processCoverageFiles finds in the service directory: coverage-final
\* files it reads and merges, none at all, or a file it cannot read or merge
Processings == {"stats", "no-coverage-final", "threw"}

\* this.serviceStats[name] = value
SetStat(stats, name, value) ==
    [n \in DOMAIN stats \cup {name} |-> IF n = name THEN value ELSE stats[n]]

\* processCoverageFiles(service): without a coverage-final.json it returns
\* before any assignment; a readJson or merge that throws leaves before the
\* assignment too; else this.serviceStats[service.name] = {files, ...}
processCoverageFiles(stats, name, processing) ==
    IF processing = "stats" THEN SetStat(stats, name, "stats") ELSE stats

\* collectServiceCoverage(service): try the container; in the catch try the
\* volume, whose error is not caught; then process the files.  The result
\* says what was attempted, the statistics after it and whether it threw
collectServiceCoverage(stats, name, container, volume, processing) ==
    IF container = "failed" /\ volume = "failed"
    THEN [visit |-> [name |-> name, container |-> "failed", volume |-> "failed",
                      processing |-> "skipped"],
          stats |-> stats, threw |-> TRUE]
    ELSE [visit |-> [name |-> name, container |-> container,
                      volume |-> IF container = "ok" THEN "skipped" ELSE "ok",
                      processing |-> processing],
          stats |-> processCoverageFiles(stats, name, processing),
          threw |-> processing = "threw"]

InCollector(at) == script = "collect" /\ phase = "running" /\ pc = at

\* await this.ensureDirectories()
ensureDirectories ==
    /\ InCollector(1)
    /\ Advance
    /\ UNCHANGED << script, collector, elapsed, setup_ts, opts, phase, attempt,
                    trapSet, pending, exitStatus, docker, started, gateOK,
                    gateFailed, logsShown, testsRun, testCode, cleanLog, signals,
                    afterTeardown, gate >>

\* the loop of collectAll without its try/catch: the error of a service
\* rejects collectAll, and main's catch calls process.exit(1)
collectAll_visit_uncaught ==
    /\ script = "collect" /\ phase = "running"
    /\ pc - 1 \in 1..Len(CONFIG_services)
    /\ \E container \in Extractions, volume \in Extractions,
          processing \in Processings :
          LET name == CONFIG_services[pc - 1]
              r == collectServiceCoverage(serviceStats, name, container, volume,
                                          processing)
          IN  /\ collected' = Append(collected, r.visit)
              /\ serviceStats' = r.stats
              /\ IF r.threw
                 THEN phase' = "exited" /\ exitStatus' = 1 /\ UNCHANGED pc
                 ELSE Advance /\ UNCHANGED << phase, exitStatus >>
    /\ UNCHANGED << script, reports, elapsed, setup_ts, opts, attempt, trapSet,
                    pending, docker, started, gateOK, gateFailed, logsShown,
                    testsRun, testCode, cleanLog, signals, afterTeardown, gate >>

\* one iteration of `for (const service of CONFIG.services)` in collectAll:
\* try { await this.collectServiceCoverage(service) } catch (error) {
\* this.serviceStats[service.name] = { error: error.message } }
collectAll_visit ==
    /\ script = "collect" /\ phase = "running"
    /\ pc - 1 \in 1..Len(CONFIG_services)
    /\ \E container \in Extractions, volume \in Extractions,
          processing \in Processings :
          LET name == CONFIG_services[pc - 1]
              r == collectServiceCoverage(serviceStats, name, container, volume,
                                          processing)
          IN  /\ collected' = Append(collected, r.visit)
              /\ serviceStats' = IF r.threw THEN SetStat(r.stats, name, "error")
                                 ELSE r.stats
    /\ Advance
    /\ UNCHANGED << script, reports, elapsed, setup_ts, opts, phase, attempt,
                    trapSet, pending, exitStatus, docker, started, gateOK,
                    gateFailed, logsShown, testsRun, testCode, cleanLog, signals,
                    afterTeardown, gate >>

\* generateAggregatedReports: each report type in its own try/catch, then
\* coverage-final.json is written
generateAggregatedReports ==
    /\ InCollector(Len(CONFIG_services) + 2)
    /\ \E formats \in SUBSET reportTypes :
          reports' = Append(reports, [report |-> "aggregated", formats |-> formats,
                                      services |-> << >>])
    /\ Advance
    /\ UNCHANGED << script, serviceStats, collected, elapsed, setup_ts, opts,
                    phase, attempt, trapSet, pending, exitStatus, docker, started,
                    gateOK, gateFailed, logsShown, testsRun, testCode, cleanLog,
                    signals, afterTeardown, gate >>

\* generateSummaryReport: summary.services = this.serviceStats, written to
\* integration-coverage-summary.json and COVERAGE_SUMMARY.md
generateSummaryReport ==
    /\ InCollector(Len(CONFIG_services) + 3)
    /\ reports' = Append(reports, [report |-> "summary", formats |-> {},
                                   services |-> serviceStats])
    /\ Advance
    /\ UNCHANGED << script, serviceStats, collected, elapsed, setup_ts, opts,
                    phase, attempt, trapSet, pending, exitStatus, docker, started,
                    gateOK, gateFailed, logsShown, testsRun, testCode, cleanLog,
                    signals, afterTeardown, gate >>

\* main: await collector.collectAll(); process.exit(0)
main ==
    /\ InCollector(Len(CONFIG_services) + 4)
    /\ phase' = "exited"
    /\ exitStatus' = 0
    /\ UNCHANGED << script, collector, elapsed, setup_ts, opts, pc, attempt,
                    trapSet, pending, docker, started, gateOK, gateFailed,
                    logsShown, testsRun, testCode, cleanLog, signals,
                    afterTeardown, gate >>

(***************************************************************************)
(* Specification                                                           *)
(***************************************************************************)
Scripts == {"beforeAll", "runner_run", "runner_clean", "runner_debug", "runner_test",
            "runner_status", "runner_logs", "prebuilt", "validate", "develop",
            "waitForService"}

\* the state in which one of `scripts` starts, with the stopwatch at `clock`
InitState(scripts, clock) ==
    /\ script \in scripts
    /\ opts \in CASE script = "develop" -> SUBSET DevelopFlags
                 [] script \in {"runner_test", "runner_logs"} -> {{}, {"arg"}}
                 [] OTHER -> {{}}
    /\ pc = 1
    /\ phase = "running"
    /\ attempt = 0
    /\ trapSet = IsShell
    /\ pending = 0
    /\ exitStatus = -1
    /\ docker \in IF IsShell THEN {EmptyDocker, FullDocker} ELSE {EmptyDocker}
    /\ started = << >>
    /\ gateOK = {}
    /\ gateFailed = "none"
    /\ logsShown = {}
    /\ testsRun = FALSE
    /\ testCode = -1
    /\ cleanLog = << >>
    /\ signals = 0
    /\ afterTeardown = FALSE
    /\ elapsed = clock
    /\ mongoClient = "undefined"
    /\ backendAPI = [Authorization |-> "none"]
    /\ authTokens = {}
    /\ sent = "idle"
    /\ thrown = "none"
    /\ db \in IF script \in {"beforeAll", "jest"} THEN SeededServers
                 ELSE {[n \in DbNames |-> EmptyDb]}
    /\ db0 = db
    /\ now \in IF script = "jest" THEN 0..MaxHours ELSE {0}
    /\ backendDb \in IF script = "jest" THEN DbNames ELSE {VERIFIED_DB}
    /\ succeeded = {}
    /\ lastAuth = [key |-> "none", response |-> "none", threw |-> FALSE,
                   tokens |-> {}, header |-> "none"]
    /\ lastGet = [key |-> "none", result |-> "none", authenticated |-> FALSE]
    /\ lastCleanup = [by |-> "none", client |-> "undefined", deletes |-> 0,
                      threw |-> FALSE]
    /\ authenticatedAPI = NoClient
    /\ lastRequest = [test |-> "none", timeout |-> 0]
    /\ lastTest = 0
    /\ serviceStats = << >>
    /\ collected = << >>
    /\ reports = << >>
    /\ gate \in IF script = "waitForService"
                THEN {[name |-> "url", max |-> m, probes |-> 0, firstOK |-> 0,
                       extra |-> 0, last |-> "none", result |-> "waiting"] : m \in 0..MaxRetriesArg}
                ELSE {NoGate}

Init == InitState(Scripts, -1)

Next ==
    \/ validate_environment
    \/ Runner_predown
    \/ Runner_up
    \/ wait_for_container_health_enter
    \/ wait_for_container_health_iter
    \/ wait_for_container_health_exhausted
    \/ wait_for_service_enter
    \/ wait_for_service_iter
    \/ wait_for_service_exhausted
    \/ show_service_status
    \/ Runner_tests
    \/ Runner_results
    \/ Runner_clean
    \/ Debug_up
    \/ Debug_untrap
    \/ run_specific_tests
    \/ Runner_logs
    \/ Runner_end
    \/ Prebuilt_pull
    \/ Prebuilt_up
    \/ Prebuilt_wait
    \/ Prebuilt_tests
    \/ Validate_up
    \/ Validate_loop
    \/ Validate_connectivity
    \/ Develop_pull
    \/ Develop_predown
    \/ Develop_up
    \/ check_service_health_enter
    \/ check_service_health_iter
    \/ check_service_health_exhausted
    \/ Develop_ps
    \/ Develop_healthonly
    \/ Develop_tests
    \/ Develop_report
    \/ waitForService_enter
    \/ waitForService_iter
    \/ waitForService_exhausted
    \/ beforeAll_connect
    \/ beforeAll_verify
    \/ authenticateUser_called
    \/ backendAPI_get
    \/ signal_trap
    \/ exit_trap

Spec == Init /\ [][Next]_vars

\* `integration-test-runner.sh run` with the time slept in its wait loops
\* measured, and no signal
InitTimed == InitState({"runner_run"}, 0)

NextTimed ==
    \/ validate_environment
    \/ Runner_predown
    \/ Runner_up
    \/ wait_for_container_health_enter
    \/ wait_for_container_health_iter
    \/ wait_for_container_health_exhausted
    \/ wait_for_service_enter
    \/ wait_for_service_iter
    \/ wait_for_service_exhausted
    \/ show_service_status
    \/ Runner_tests
    \/ Runner_results
    \/ exit_trap

SpecTimed == InitTimed /\ [][NextTimed]_vars

\* the Jest session of one test file: beforeAll of setup.ts, the tests and
\* hooks of the file with afterEach after each test, afterAll
InitJest == InitState({"jest"}, -1)

NextJest ==
    \/ waitForService_enter
    \/ waitForService_iter
    \/ waitForService_exhausted
    \/ beforeAll_connect
    \/ beforeAll_verify
    \/ authenticateUser_called
    \/ describe_beforeAll_hook
    \/ test_skipped
    \/ test_user_registration
    \/ test_create_figure
    \/ test_network_error_resilience
    \/ test_crud_consistency
    \/ afterEach
    \/ afterAll

SpecJest == InitJest /\ [][NextJest]_vars

\* the Jest session of a test file whose tests and hooks call
\* authenticateUser and getAuthenticatedAPI, on seeded databases
InitAuth ==
    /\ InitState({"jest"}, -1)
    /\ db = [n \in DbNames |-> IF n = VERIFIED_DB THEN initTestData(0)
                                ELSE initializeTestData(EmptyDb, 0)]
    /\ now = 0
    /\ backendDb = VERIFIED_DB

NextAuth ==
    \/ waitForService_enter
    \/ waitForService_iter
    \/ waitForService_exhausted
    \/ beforeAll_connect
    \/ beforeAll_verify
    \/ authenticateUser_called
    \/ describe_beforeAll_hook
    \/ test_authenticateUser
    \/ getAuthenticatedAPI
    \/ test_skipped
    \/ afterEach
    \/ afterAll

SpecAuth == InitAuth /\ [][NextAuth]_vars

\* the coverage collector, run as `node collect-coverage.js`
InitCollect == InitState({"collect"}, -1)

NextCollect ==
    \/ ensureDirectories
    \/ collectAll_visit
    \/ generateAggregatedReports
    \/ generateSummaryReport
    \/ main

SpecCollect == InitCollect /\ [][NextCollect]_vars

(***************************************************************************)
(* Vocabulary of the properties                                            *)
(***************************************************************************)
Exited == phase = "exited"

\* the startup phase a service belongs to: MongoDB, then the independent
\* services, then the backend, then the frontend
PhaseOf(c) ==
    CASE c = MONGO -> 1
      [] c \in {VM, SCRAPER} -> 2
      [] c = BACKEND -> 3
      [] c = FRONTEND -> 4
      [] OTHER -> 5

StartedSet == UNION {started[i] : i \in 1..Len(started)}

PhaseOrder == << {MONGO}, {VM, SCRAPER}, {BACKEND}, {FRONTEND} >>

(***************************************************************************)
(* C1.  In `integration-test-runner.sh run` the containers are started in  *)
(* the order mongodb-test, {version-manager-test, scraper-test},           *)
(* backend-test, frontend-test, and when a container is started every      *)
(* container of every earlier phase has passed its readiness gate.         *)
(***************************************************************************)
C1_PhasedStartup ==
    script = "runner_run" =>
        /\ Len(started) <= Len(PhaseOrder)
        /\ \A i \in 1..Len(started) : started[i] = PhaseOrder[i]
        /\ \A c \in StartedSet : \A e \in Services :
               PhaseOf(e) < PhaseOf(c) => e \in gateOK

\* all four phases were started
C1_Witness ==
    /\ script = "runner_run"
    /\ Len(started) = 4
    /\ FRONTEND \in docker.containers

(***************************************************************************)
(* C2.  In `integration-test-runner.sh run`, once the readiness gate of a  *)
(* phase has failed, the script is leaving: no service of a later phase is *)
(* started, the integration tests are not run, the logs of the failing     *)
(* service are shown, and the exit status is non-zero.                     *)
(***************************************************************************)
C2_GateFailureAborts ==
    (script = "runner_run" /\ gateFailed # "none") =>
        /\ phase # "running"
        /\ \A c \in StartedSet : PhaseOf(c) <= PhaseOf(gateFailed)
        /\ ~testsRun
        /\ gateFailed \in logsShown
        /\ Exited => exitStatus # 0

\* scraper-test never became healthy and the script has exited
C2_Witness ==
    /\ script = "runner_run"
    /\ gateFailed = SCRAPER
    /\ gate.probes = MAX_RETRIES
    /\ Exited

(***************************************************************************)
(* C3.  waitForService returns true if and only if one of its probes       *)
(* received a response with status < 400, after at most maxRetries probes; *)
(* statuses 400-499, statuses >= 500 and missing responses are failed      *)
(* probes, and it returns false when every probe failed.                   *)
(***************************************************************************)
C3_ReadyIffProbeSucceeded ==
    (script = "waitForService" /\ Exited) =>
        /\ gate.result \in {"ready", "failed"}
        /\ (gate.result = "ready") <=> (gate.firstOK # 0)
        /\ gate.probes <= gate.max

\* waitForService returned true on a later probe, after a failed one
C3_Witness ==
    /\ script = "waitForService"
    /\ Exited
    /\ gate.result = "ready"
    /\ gate.probes = 3

(***************************************************************************)
(* C4.  A readiness gate stops at its first successful probe: when the     *)
(* k-th probe is the first to succeed, the gate returns ready with exactly *)
(* k probes issued and issues no further one.  Stated for waitForService,  *)
(* wait_for_service, wait_for_container_health and check_service_health.   *)
(***************************************************************************)
C4_StopAtFirstSuccess ==
    (script \in {"waitForService", "runner_run", "develop"} /\ gate.firstOK # 0) =>
        /\ gate.probes = gate.firstOK
        /\ gate.firstOK <= gate.max
        /\ gate.result = "ready"
        /\ gate.extra = 0

\* check_service_health returned at the 2nd probe, the first that succeeded
C4_Witness ==
    /\ script = "develop"
    /\ gate.name = BACKEND
    /\ gate.firstOK = 2
    /\ gate.result = "ready"
    /\ pc > 7

(***************************************************************************)
(* C5 as claimed.  Whenever waitForService, wait_for_service or            *)
(* wait_for_container_health returns failure, exactly maxAttempts probes   *)
(* have been issued, and no gate issues more than maxAttempts probes.      *)
(***************************************************************************)
C5_FailureOnlyAfterWholeBudget ==
    script \in {"waitForService", "runner_run"} =>
        /\ gate.probes <= gate.max
        /\ gate.result = "failed" => gate.probes = gate.max

(***************************************************************************)
(* C5 as amended.  waitForService and wait_for_service return failure only *)
(* after exactly maxAttempts probes; wait_for_container_health returns     *)
(* failure after exactly maxAttempts probes, or at once at the probe for   *)
(* which docker inspect fails (status not-found), which may be any probe   *)
(* from the first on.  No gate issues more than maxAttempts probes in its  *)
(* loop.                                                                   *)
(***************************************************************************)
C5_FailureAfterBudgetOrNotFound ==
    script \in {"waitForService", "runner_run"} =>
        /\ gate.probes <= gate.max
        /\ gate.result = "failed" =>
              \/ gate.probes = gate.max
              \/ gate.name \in Services /\ gate.last = "inspect-failed"

\* the version service's gate used its whole budget and returned failure
C5_Witness ==
    /\ script = "runner_run"
    /\ gate.name = VM
    /\ gate.result = "failed"
    /\ gate.probes = 60
    /\ gate.last # "inspect-failed"

C7_SignalTeardownExactlyOnce ==
    (script = "runner_run" /\ signals > 0 /\ Exited
        /\ \A i \in 1..Len(cleanLog) : ~cleanLog[i].fault) =>
        /\ Len(cleanLog) = 1
        /\ ~afterTeardown
        /\ exitStatus # 0

(***************************************************************************)
(* C8.  `integration-test-runner.sh clean` runs cleanup twice (the call    *)
(* and the EXIT trap).  When docker executes every cleanup command, the    *)
(* state after the second cleanup is the state after the first (no         *)
(* container, volume or network left), every cleanup runs to its end, and  *)
(* the script exits 0.                                                     *)
(***************************************************************************)
C8_CleanTwiceIsCleanOnce ==
    (script = "runner_clean" /\ Exited
        /\ \A i \in 1..Len(cleanLog) : ~cleanLog[i].fault) =>
        /\ Len(cleanLog) >= 2
        /\ \A i \in 1..Len(cleanLog) :
              /\ cleanLog[i].done
              /\ cleanLog[i].after = EmptyDocker
        /\ docker = EmptyDocker
        /\ exitStatus = 0

\* cleanup ran twice without signal and the script exited
C8_Witness ==
    /\ script = "runner_clean"
    /\ Exited
    /\ Len(cleanLog) = 2
    /\ cleanLog[1].by = "call" /\ cleanLog[2].by = "exit"
    /\ ~cleanLog[1].fault /\ ~cleanLog[2].fault
    /\ exitStatus = 0

(***************************************************************************)
(* C9 as claimed.  In the cleanup functions of integration-test-runner.sh, *)
(* run-with-prebuilt.sh and test-against-develop.sh a failing step is not  *)
(* propagated: the remaining steps still run and the exit status stays     *)
(* that of the run.                                                        *)
(***************************************************************************)
C9_CleanupFailureNotPropagated ==
    script \in {"runner_run", "runner_clean", "prebuilt", "develop"} =>
        /\ \A i \in 1..Len(cleanLog) : cleanLog[i].fault => cleanLog[i].done
        /\ Exited => exitStatus = pending

(***************************************************************************)
(* C10 as claimed.  integration-test-runner.sh run and                     *)
(* test-against-develop.sh (without --health-only), when not interrupted,  *)
(* exit 0 exactly when every service became ready and the tests passed,    *)
(* exit 1 on a gate failure or a test failure, and with no other status.   *)
(***************************************************************************)
C10_ExitStatus ==
    (/\ \/ script = "runner_run"
        \/ script = "develop" /\ "--health-only" \notin opts
     /\ Exited /\ signals = 0) =>
        /\ (exitStatus = 0) <=> (Services \subseteq gateOK /\ testsRun /\ testCode = 0)
        /\ (gateFailed # "none" \/ (testsRun /\ testCode # 0)) => exitStatus = 1
        /\ exitStatus \in {0, 1}

(***************************************************************************)
(* C11 as claimed.  `integration-test-runner.sh debug` never tears down:   *)
(* when the script has run to its end or one of its readiness gates has    *)
(* failed, no cleanup was executed and the containers it started are still *)
(* there when the script has exited (runs without a signal).               *)
(***************************************************************************)
C11_DebugNeverTearsDown ==
    (/\ script = "runner_debug" /\ signals = 0
     /\ gateFailed # "none" \/ pc > Len(Plan)) =>
        /\ cleanLog = << >>
        /\ Exited => StartedSet \subseteq docker.containers

(***************************************************************************)
(* C12 as claimed.  In `integration-test-runner.sh test <pattern>` the     *)
(* test command is started only when the five services have each passed    *)
(* their readiness gate.                                                   *)
(***************************************************************************)
C12_TestsAfterGating ==
    (script = "runner_test" /\ testsRun) => Services \subseteq gateOK

(***************************************************************************)
(* C12 as amended.  `integration-test-runner.sh test <pattern>` performs   *)
(* no startup and no readiness gating of its own: it hands no service to   *)
(* `up -d`, runs no gate, and starts the filtered test command directly,   *)
(* only when a pattern was given.                                          *)
(***************************************************************************)
C12_TestsWithoutOrchestration ==
    script = "runner_test" =>
        /\ started = << >>
        /\ gate = NoGate /\ gateOK = {} /\ gateFailed = "none"
        /\ testsRun => "arg" \in opts
        /\ (Exited /\ "arg" \notin opts) => ~testsRun /\ exitStatus # 0

\* the filtered tests were run and the script has exited
C12_Witness ==
    /\ script = "runner_test"
    /\ testsRun /\ testCode = 0
    /\ Exited

(***************************************************************************)
(* C15.  A failed connectivity check is a warning only.  In                *)
(* `integration-test-runner.sh run`, after the frontend-to-backend check   *)
(* has failed the script is at a later step (it never exits at the check   *)
(* and records no gate failure), and when the tests then ran and passed    *)
(* the status the run ends with is 0.  In validate-orchestration.sh, when  *)
(* the connectivity checks were made, whatever their outcome, the exit     *)
(* status is 0.                                                            *)
(***************************************************************************)
C15_ConnectivityFailureIsWarning ==
    /\ (script = "runner_run" /\ gate.name = "frontend-to-backend"
            /\ gate.result = "failed") =>
          /\ pc > 12
          /\ gateFailed = "none"
          /\ (signals = 0 /\ phase # "running" /\ testsRun /\ testCode = 0)
                => pending = 0
    /\ (script = "validate" /\ gate.name = "connectivity") =>
          /\ phase # "running" /\ pending = 0
          /\ Exited => exitStatus = 0

\* the frontend-to-backend check failed all 10 probes and the tests ran
C15_Witness ==
    /\ script = "runner_run"
    /\ gate.name = "frontend-to-backend" /\ gate.result = "failed"
    /\ gate.probes = 10
    /\ testsRun /\ testCode = 0
    /\ Exited /\ exitStatus = 0

(***************************************************************************)
(* C17 as claimed.  When integration-test-runner.sh run has exited         *)
(* non-zero because a phase gate or the tests failed, or                   *)
(* run-with-prebuilt.sh because the tests failed, the logs of the failing  *)
(* service were printed before the exit (runs without a signal).           *)
(***************************************************************************)
C17_LogsBeforeTeardown ==
    (script \in {"runner_run", "prebuilt"} /\ signals = 0 /\ Exited
        /\ exitStatus # 0) =>
        /\ (script = "runner_run" /\ gateFailed # "none") => gateFailed \in logsShown
        /\ (testsRun /\ testCode # 0) => TESTS \in logsShown

(***************************************************************************)
(* C19 as claimed.  `integration-test-runner.sh status` and `logs` are     *)
(* read-only: when containers are running, no step of the command removes  *)
(* one of them or executes cleanup (runs without a signal).                *)
(***************************************************************************)
C19_StatusAndLogsReadOnly ==
    [][(script \in {"runner_status", "runner_logs"} /\ signals' = 0
            /\ docker.containers # {}) =>
          /\ docker.containers \subseteq docker'.containers
          /\ cleanLog' = cleanLog]_vars

(***************************************************************************)
(* C20 as claimed.  When validate-orchestration.sh has completed           *)
(* successfully (it reached its final messages and exited 0, without a     *)
(* signal), the five services it started are still running.                *)
(***************************************************************************)
C20_ValidateLeavesServicesRunning ==
    (script = "validate" /\ signals = 0 /\ Exited /\ exitStatus = 0
        /\ gate.name = "connectivity") =>
        {MONGO, VERSION_SERVICE, SCRAPER, BACKEND, FRONTEND} \subseteq docker.containers

(***************************************************************************)
(* C13.  In beforeAll the gates run in the order Version Service, Page     *)
(* Scraper, Backend, Frontend: a service is probed only after every        *)
(* service before it returned ready.  When a gate returns not-ready,       *)
(* beforeAll throws the error naming that service; no later service is     *)
(* probed, MongoDB is not connected and no user is authenticated.          *)
(***************************************************************************)
BeforeAllOrder == << "Version Service", "Page Scraper", "Backend", "Frontend" >>

C13_BeforeAllGateOrder ==
    script = "beforeAll" =>
        /\ \A i \in 1..4 :
              (gate.name = BeforeAllOrder[i] /\ gate.probes >= 1) =>
                  \A j \in 1..(i - 1) : BeforeAllOrder[j] \in gateOK
        /\ gateFailed # "none" =>
              /\ thrown = gateFailed
              /\ phase = "exited"
              /\ gate.name = gateFailed /\ gate.result = "failed"
              /\ gateFailed \notin gateOK
              /\ mongoClient = "undefined"
              /\ authTokens = {} /\ backendAPI.Authorization = "none"
              /\ ~testsRun

\* the Backend gate returned not-ready after its 45 probes
C13_Witness ==
    /\ script = "beforeAll"
    /\ gateFailed = "Backend"
    /\ gate.probes = 45
    /\ gateOK = {"Version Service", "Page Scraper"}

(***************************************************************************)
(* C14 as claimed.  A request sent through backendAPI without an explicit  *)
(* Authorization header carries no credentials, also after                 *)
(* authenticateUser has been called.                                       *)
(***************************************************************************)
C14_BackendAPICarriesNoCredentials ==
    (script = "beforeAll" /\ sent # "idle") => sent = "none"

C18_GlobalCeiling ==
    script = "runner_run" =>
        /\ elapsed <= TIMEOUT
        /\ (elapsed >= TIMEOUT /\ Exited) => exitStatus # 0

(***************************************************************************)
(* Vocabulary of C21: test-against-develop.sh                              *)
(***************************************************************************)
\* a cleanup of this run executed `docker-compose down`
DownExecuted == \E i \in 1..Len(cleanLog) : cleanLog[i].steps > 0

\* `docker-compose up -d` of the five services succeeded
ServicesStarted == started # << >> /\ pc > 3

BeforeAllCompleted ==
    script = "beforeAll" /\ pc > Len(setup_beforeAll) /\ thrown = "none"

C24_TimeoutDoesNotPersist ==
    (script = "jest" /\ lastRequest.test \notin {"none", "Network error resilience"}) =>
        lastRequest.timeout = 30000

(***************************************************************************)
(* C25 as claimed.  cleanupTestData never deletes seeded fixture data:     *)
(* whatever the time since the init scripts ran and however many           *)
(* afterEach/afterAll cleanups have run, every user and every figure the   *)
(* databases held when the session started is still there.                 *)
(***************************************************************************)
C25_FixturesPreserved ==
    script = "jest" =>
        \A n \in DbNames :
            /\ db0[n].users \subseteq db[n].users
            /\ db0[n].figures \subseteq db[n].figures

\* the state a cleanup that completed both deletes has just left
JustCleaned ==
    /\ script = "jest"
    /\ lastCleanup.by # "none" /\ lastCleanup.deletes = 2
    /\ \/ phase = "exited"
       \/ JestPlan[pc].op \in {"test", "afterAll"}

(***************************************************************************)
(* C26 as claimed.  After cleanupTestData has run, no figure created by a  *)
(* test within the last hour and no user registered by a test              *)
(* (test_<timestamp>@example.com) remains in figcollector_test, the        *)
(* database beforeAll verified.                                            *)
(***************************************************************************)
C26_TestDataRemoved ==
    JustCleaned =>
        /\ RegisteredEmail \notin db[VERIFIED_DB].users
        /\ \A f \in db[VERIFIED_DB].figures :
              ~(f.name = TestFigure(now).name /\ CreatedInLastHour(f, now))

\* a cleanup hook of the session (afterEach or afterAll) is about to run
CleanupHookRuns ==
    /\ script = "jest" /\ phase = "running" /\ pc <= Len(JestPlan)
    /\ JestPlan[pc].op \in {"afterEach", "afterAll"}

(***************************************************************************)
(* C27.  cleanupTestData never propagates a failure: whichever delete      *)
(* rejects, the hook that awaited it goes on.  When the client was never   *)
(* created the cleanup is a no-op (no delete issued, the databases         *)
(* untouched).  afterAll closes the connection after the cleanup whenever  *)
(* a client was created, also when beforeAll failed part-way.              *)
(***************************************************************************)
C27_CleanupNeverPropagates ==
    [][ (CleanupHookRuns /\ pc' # pc) =>
            /\ ~lastCleanup'.threw
            /\ mongoClient = "undefined" =>
                  /\ db' = db
                  /\ lastCleanup'.deletes = 0
                  /\ mongoClient' = "undefined"
            /\ (JestPlan[pc].op = "afterAll" /\ mongoClient # "undefined") =>
                  mongoClient' = "closed"
            /\ JestPlan[pc].op = "afterEach" => mongoClient' = mongoClient
      ]_vars

\* beforeAll failed at connect(), after the client was created; the
\* cleanup of afterAll could not delete anything and the client was closed
C27_Witness ==
    /\ script = "jest" /\ phase = "exited"
    /\ thrown = "connect"
    /\ lastCleanup.by = "afterAll" /\ lastCleanup.client = "unconnected"
    /\ lastCleanup.deletes = 0 /\ ~lastCleanup.threw
    /\ mongoClient = "closed"


(***************************************************************************)
(* C28 as claimed.  A service that reports an unhealthy status never       *)
(* passes a readiness wait: in run-with-prebuilt.sh and in                 *)
(* validate-orchestration.sh a wait lets the script proceed only when the  *)
(* service reported healthy or ok (or, in run-with-prebuilt.sh, running).  *)
(***************************************************************************)
C28_UnhealthyNeverPasses ==
    (script \in {"prebuilt", "validate"} /\ gate.result = "ready"
        /\ gate.name \in gateOK) =>
        /\ gate.last # "unhealthy"
        /\ gate.last \in IF script = "prebuilt"
                         THEN {"healthy", "running"}
                         ELSE {"healthy", "ok"}


\* collectAll has returned and main has called process.exit
CollectorExited == script = "collect" /\ phase = "exited"

\* the services map of the summary report, << >> before it is written
SummaryServices ==
    IF \E i \in 1..Len(reports) : reports[i].report = "summary"
    THEN (CHOOSE r \in {reports[i] : i \in 1..Len(reports)} :
              r.report = "summary").services
    ELSE << >>

(***************************************************************************)
(* C29 as claimed.  After CoverageCollector.collectAll, serviceStats, and  *)
(* with it the services map of the summary report, has exactly one entry   *)
(* for each of the four configured services, either coverage statistics or *)
(* an error record; no configured service is missing.                      *)
(***************************************************************************)
C29_OneEntryPerService ==
    CollectorExited =>
        /\ DOMAIN serviceStats = ServiceNames
        /\ \A n \in ServiceNames : serviceStats[n] \in {"stats", "error"}
        /\ SummaryServices = serviceStats

====
